---- MODULE Spec2Model ----
(***************************************************************************)
(* Model of the image-annotation editor: the shape geometry helpers, the   *)
(* hit-tester, the shape-manipulation hook, the history hook, the image    *)
(* loader hook and the ImageAnnotator event handlers that wire them.       *)
(*                                                                         *)
(* Coordinates are fixed-point integers: one model unit is 1/Scale image   *)
(* units, so that the midpoints and centres the code computes with "/ 2"   *)
(* stay exact.  The pointer positions the model feeds in are image points  *)
(* whose model coordinates are multiples of 4; every stored coordinate is  *)
(* then a multiple of 2.  The zoom factor is held at Zoom (the hook's      *)
(* initial value), so the hit tolerance 8 / zoom is Tol model units.       *)
(***************************************************************************)
EXTENDS Integers, Sequences, FiniteSets, TLC

Scale == 2
Zoom == 1
Tol == (8 * Scale) \div Zoom
RotHandleOffset == 20 * Scale
MinRectSize == 1 * Scale
SAMPLES == 24

Pt(x, y) == [x |-> x, y |-> y]

Abs(v) == IF v < 0 THEN -v ELSE v
Min2(a, b) == IF a < b THEN a ELSE b
Max2(a, b) == IF a > b THEN a ELSE b

RECURSIVE SeqMin(_)
SeqMin(s) == IF Len(s) = 1 THEN s[1] ELSE Min2(s[1], SeqMin(Tail(s)))

RECURSIVE SeqMax(_)
SeqMax(s) == IF Len(s) = 1 THEN s[1] ELSE Max2(s[1], SeqMax(Tail(s)))

(* An optional handle (h1?, h2?) is a sequence: <<>> when absent, <<p>> when set. *)
NoHandle == <<>>
Some(p) == <<p>>
HasHandle(h) == Len(h) = 1
OrElse(h, p) == IF HasHandle(h) THEN h[1] ELSE p

(* ---------------- shapeHelpers.ts ---------------- *)

dist2(a, b) == (a.x - b.x) * (a.x - b.x) + (a.y - b.y) * (a.y - b.y)

(* rotatePoint for an angle of q quarter turns (q in 0..3): cos and sin are
   then 1, 0, -1, 0 and 0, 1, 0, -1. *)
CosQ(q) == CASE q = 0 -> 1 [] q = 1 -> 0 [] q = 2 -> -1 [] OTHER -> 0
SinQ(q) == CASE q = 0 -> 0 [] q = 1 -> 1 [] q = 2 -> 0 [] OTHER -> -1
NegQ(q) == (4 - q) % 4
rotatePoint(p, center, q) ==
    LET dx == p.x - center.x
        dy == p.y - center.y
    IN  Pt(center.x + dx * CosQ(q) - dy * SinQ(q),
           center.y + dx * SinQ(q) + dy * CosQ(q))

(* pointToSegDist2 as an exact fraction n / d (d > 0): t is clamped to [0, 1]. *)
pointToSegDist2(p, a, b) ==
    LET l2 == dist2(a, b)
        dot == (p.x - a.x) * (b.x - a.x) + (p.y - a.y) * (b.y - a.y)
    IN  IF l2 = 0 THEN [n |-> dist2(p, a), d |-> 1]
        ELSE IF dot <= 0 THEN [n |-> dist2(p, a), d |-> 1]
        ELSE IF dot >= l2 THEN [n |-> dist2(p, b), d |-> 1]
        ELSE [n |-> dist2(p, a) * l2 - dot * dot, d |-> l2]

FracLeq(f, v) == f.n <= v * f.d

(* The i-th sample of the cubic (t = i / SAMPLES), rounded down to the grid. *)
CubicSample(p0, c1, c2, p1, i) ==
    LET t == i
        mt == SAMPLES - i
        den == SAMPLES * SAMPLES * SAMPLES
        bx == mt * mt * mt * p0.x + 3 * mt * mt * t * c1.x
              + 3 * mt * t * t * c2.x + t * t * t * p1.x
        by == mt * mt * mt * p0.y + 3 * mt * mt * t * c1.y
              + 3 * mt * t * t * c2.y + t * t * t * p1.y
    IN  Pt(bx \div den, by \div den)

RECURSIVE CubicWithinFrom(_, _, _, _, _, _, _, _)
CubicWithinFrom(p, p0, c1, c2, p1, prev, i, tol2) ==
    IF i > SAMPLES THEN FALSE
    ELSE LET cur == CubicSample(p0, c1, c2, p1, i)
         IN  \/ FracLeq(pointToSegDist2(p, prev, cur), tol2)
             \/ CubicWithinFrom(p, p0, c1, c2, p1, cur, i + 1, tol2)

(* pointToCubicDist2(p, p0, c1, c2, p1) <= tol2: the minimum over the sampled
   sub-segments is within tol2 iff one of them is. *)
pointToCubicWithin(p, p0, c1, c2, p1, tol2) ==
    CubicWithinFrom(p, p0, c1, c2, p1, p0, 1, tol2)

(* normalizeRect that makes the extents positive and leaves the origin. *)
normalizeRectAbsOnly(r) == [r EXCEPT !.w = Abs(r.w), !.h = Abs(r.h)]

(* normalizeRect that turns a negative width and leaves a negative height. *)
normalizeRectWidthOnly(r) ==
    IF r.w < 0 THEN [r EXCEPT !.x = r.x + r.w, !.w = -r.w] ELSE r

normalizeRect(r) ==
    LET x1 == IF r.w < 0 THEN r.x + r.w ELSE r.x
        w1 == IF r.w < 0 THEN -r.w ELSE r.w
        y1 == IF r.h < 0 THEN r.y + r.h ELSE r.y
        h1 == IF r.h < 0 THEN -r.h ELSE r.h
    IN  [r EXCEPT !.x = x1, !.y = y1, !.w = w1, !.h = h1]

MovePt(p, dx, dy) == Pt(p.x + dx, p.y + dy)
MoveHandle(h, dx, dy) == IF HasHandle(h) THEN Some(MovePt(h[1], dx, dy)) ELSE NoHandle

(* moveShapeBy that gives a Bezier node a handle where it has none. *)
moveShapeByFillHandles(s, dx, dy) ==
    CASE s.type = "rect" -> [s EXCEPT !.x = s.x + dx, !.y = s.y + dy]
      [] s.type = "polyline" ->
            [s EXCEPT !.points = [i \in 1..Len(s.points) |-> MovePt(s.points[i], dx, dy)]]
      [] s.type = "bezier" ->
            [s EXCEPT !.nodes = [i \in 1..Len(s.nodes) |->
                [p  |-> MovePt(s.nodes[i].p, dx, dy),
                 h1 |-> Some(MovePt(OrElse(s.nodes[i].h1, s.nodes[i].p), dx, dy)),
                 h2 |-> Some(MovePt(OrElse(s.nodes[i].h2, s.nodes[i].p), dx, dy))]]]
      [] OTHER -> [s EXCEPT !.p = MovePt(s.p, dx, dy)]

moveShapeBy(s, dx, dy) ==
    CASE s.type = "rect" -> [s EXCEPT !.x = s.x + dx, !.y = s.y + dy]
      [] s.type = "polyline" ->
            [s EXCEPT !.points = [i \in 1..Len(s.points) |-> MovePt(s.points[i], dx, dy)]]
      [] s.type = "bezier" ->
            [s EXCEPT !.nodes = [i \in 1..Len(s.nodes) |->
                [p  |-> MovePt(s.nodes[i].p, dx, dy),
                 h1 |-> MoveHandle(s.nodes[i].h1, dx, dy),
                 h2 |-> MoveHandle(s.nodes[i].h2, dx, dy)]]]
      [] OTHER -> [s EXCEPT !.p = MovePt(s.p, dx, dy)]

Bounds(x, y, w, h) == [x |-> x, y |-> y, w |-> w, h |-> h]

getShapeBounds(s) ==
    CASE s.type = "rect" ->
            LET r == normalizeRect(s) IN Bounds(r.x, r.y, r.w, r.h)
      [] s.type = "polyline" ->
            LET xs == [i \in 1..Len(s.points) |-> s.points[i].x]
                ys == [i \in 1..Len(s.points) |-> s.points[i].y]
            IN  Bounds(SeqMin(xs), SeqMin(ys),
                       SeqMax(xs) - SeqMin(xs), SeqMax(ys) - SeqMin(ys))
      [] s.type = "bezier" ->
            LET xs == [i \in 1..Len(s.nodes) |-> s.nodes[i].p.x]
                ys == [i \in 1..Len(s.nodes) |-> s.nodes[i].p.y]
            IN  Bounds(SeqMin(xs), SeqMin(ys),
                       SeqMax(xs) - SeqMin(xs), SeqMax(ys) - SeqMin(ys))
      [] OTHER -> Bounds(s.p.x, s.p.y, 0, 0)

BoundsCenter(b) == Pt(b.x + b.w \div 2, b.y + b.h \div 2)

getShapeCenter(s) == BoundsCenter(getShapeBounds(s))

(* ---------------- coordinates.ts ---------------- *)

RECURSIVE GCD(_, _)
GCD(a, b) == IF b = 0 THEN a ELSE GCD(b, a % b)

(* Exact fractions n / d with d > 0, in lowest terms, for the numbers that
   leave the grid: the zoom and the screen coordinates. *)
Rat(n, d) == [n |-> n \div GCD(Abs(n), d), d |-> d \div GCD(Abs(n), d)]
RAdd(a, b) == Rat(a.n * b.d + b.n * a.d, a.d * b.d)
RSub(a, b) == Rat(a.n * b.d - b.n * a.d, a.d * b.d)
RMul(a, b) == Rat(a.n * b.n, a.d * b.d)
RDiv(a, b) == IF b.n > 0 THEN Rat(a.n * b.d, a.d * b.n) ELSE Rat(-(a.n * b.d), -(a.d * b.n))
REq(a, b) == a.n * b.d = b.n * a.d
RLess(a, b) == a.n * b.d < b.n * a.d
RMin(a, b) == IF RLess(b, a) THEN b ELSE a
RMax(a, b) == IF RLess(a, b) THEN b ELSE a

(* screenToImage that adds the pan offset. *)
screenToImageAddPan(p, zoom, pan) ==
    [x |-> RDiv(RAdd(p.x, pan.x), zoom), y |-> RDiv(RAdd(p.y, pan.y), zoom)]

screenToImage(p, zoom, pan) ==
    [x |-> RDiv(RSub(p.x, pan.x), zoom), y |-> RDiv(RSub(p.y, pan.y), zoom)]

imageToScreen(p, zoom, pan) ==
    [x |-> RAdd(RMul(p.x, zoom), pan.x), y |-> RAdd(RMul(p.y, zoom), pan.y)]

clamp(v, a, b) == RMin(RMax(v, a), b)

(* ---------------- usePanZoom ---------------- *)

MinZoom == Rat(1, 10)
MaxZoom == Rat(20, 1)

(* The zoom and pan zoomToFit sets; set is FALSE when it returns early. *)
ZoomPan(z, imageWidth, imageHeight, containerWidth, containerHeight) ==
    [set |-> TRUE, zoom |-> z,
     pan |-> [x |-> RDiv(RSub(Rat(containerWidth, 1), RMul(Rat(imageWidth, 1), z)), Rat(2, 1)),
              y |-> RDiv(RSub(Rat(containerHeight, 1), RMul(Rat(imageHeight, 1), z)), Rat(2, 1))]]

(* zoomToFit that takes the larger of the two ratios. *)
zoomToFitLarger(imageWidth, imageHeight, containerWidth, containerHeight) ==
    IF imageWidth = 0 \/ imageHeight = 0 THEN [set |-> FALSE]
    ELSE ZoomPan(clamp(RMax(Rat(containerWidth, imageWidth), Rat(containerHeight, imageHeight)),
                       MinZoom, MaxZoom),
                 imageWidth, imageHeight, containerWidth, containerHeight)

zoomToFit(imageWidth, imageHeight, containerWidth, containerHeight) ==
    IF imageWidth = 0 \/ imageHeight = 0 THEN [set |-> FALSE]
    ELSE ZoomPan(clamp(RMin(Rat(containerWidth, imageWidth), Rat(containerHeight, imageHeight)),
                       MinZoom, MaxZoom),
                 imageWidth, imageHeight, containerWidth, containerHeight)

(* onWheel on the hook's state z (zoom and pan) with the pointer at mouse:
   the zoom goes down by 0.9 for a positive deltaY and up by 1.1 otherwise,
   and the pan keeps the image point under the pointer in place. *)
onWheel(z, mouse, deltaYPositive) ==
    LET imgPt == screenToImage(mouse, z.zoom, z.pan)
        dz == IF deltaYPositive THEN Rat(9, 10) ELSE Rat(11, 10)
        newZoom == clamp(RMul(z.zoom, dz), MinZoom, MaxZoom)
    IN  [zoom |-> newZoom,
         pan |-> [x |-> RSub(mouse.x, RMul(imgPt.x, newZoom)),
                  y |-> RSub(mouse.y, RMul(imgPt.y, newZoom))]]

(* zoomIn without the clamp. *)
zoomInUnclamped(z) == [z EXCEPT !.zoom = RMul(z.zoom, Rat(6, 5))]

zoomIn(z) == [z EXCEPT !.zoom = clamp(RMul(z.zoom, Rat(6, 5)), MinZoom, MaxZoom)]

zoomOut(z) == [z EXCEPT !.zoom = clamp(RDiv(z.zoom, Rat(6, 5)), MinZoom, MaxZoom)]

(* The hook's state after zoomToFit. *)
zoomToFitOn(z, imageWidth, imageHeight, containerWidth, containerHeight) ==
    LET fit == zoomToFit(imageWidth, imageHeight, containerWidth, containerHeight)
    IN  IF fit.set THEN [zoom |-> fit.zoom, pan |-> fit.pan] ELSE z

(* ---------------- hitTesting.ts ---------------- *)

NoHit == [hit |-> FALSE]
Hit(s, kind, index, edge) ==
    [hit |-> TRUE, shape |-> s, kind |-> kind, index |-> index, edge |-> edge]
NoIndex == -1
NoEdge == ""

(* First corner, in the order of the code's list, within tol of pt. *)
RECURSIVE FirstCorner(_, _, _, _)
FirstCorner(pt, corners, i, tol) ==
    IF i > Len(corners) THEN 0
    ELSE IF dist2(pt, corners[i].c) <= tol * tol THEN i
    ELSE FirstCorner(pt, corners, i + 1, tol)

RECURSIVE FirstEdge(_, _, _, _)
FirstEdge(pt, edges, i, tol) ==
    IF i > Len(edges) THEN 0
    ELSE IF FracLeq(pointToSegDist2(pt, edges[i].a, edges[i].b), tol * tol) THEN i
    ELSE FirstEdge(pt, edges, i + 1, tol)

RectCorners(r) ==
    << [c |-> Pt(r.x, r.y), label |-> "left top"],
       [c |-> Pt(r.x + r.w, r.y), label |-> "right top"],
       [c |-> Pt(r.x, r.y + r.h), label |-> "left bottom"],
       [c |-> Pt(r.x + r.w, r.y + r.h), label |-> "right bottom"] >>

RectEdges(r) ==
    << [a |-> Pt(r.x, r.y), b |-> Pt(r.x + r.w, r.y), label |-> "top"],
       [a |-> Pt(r.x, r.y + r.h), b |-> Pt(r.x + r.w, r.y + r.h), label |-> "bottom"],
       [a |-> Pt(r.x, r.y), b |-> Pt(r.x, r.y + r.h), label |-> "left"],
       [a |-> Pt(r.x + r.w, r.y), b |-> Pt(r.x + r.w, r.y + r.h), label |-> "right"] >>

(* The rect branch past the un-rotation: r is the normalized rectangle, pt the
   pointer in the rectangle's own frame, ci and ei the first corner and the
   first edge within tol (0 when none). *)
(* The rect branch with the edges looked at before the corners. *)
hitRectPickEdgeFirst(s, r, pt, ci, ei, tol) ==
    IF dist2(pt, Pt(r.x + r.w \div 2, r.y - RotHandleOffset)) <= tol * tol
    THEN Hit(s, "rotate", NoIndex, NoEdge)
    ELSE IF ei # 0 THEN Hit(s, "rect-edge", NoIndex, RectEdges(r)[ei].label)
    ELSE IF ci # 0 THEN Hit(s, "rect-corner", NoIndex, RectCorners(r)[ci].label)
    ELSE IF pt.x >= r.x /\ pt.x <= r.x + r.w /\ pt.y >= r.y /\ pt.y <= r.y + r.h
         THEN Hit(s, "move-shape", NoIndex, NoEdge)
    ELSE NoHit

hitRectPick(s, r, pt, ci, ei, tol) ==
    IF dist2(pt, Pt(r.x + r.w \div 2, r.y - RotHandleOffset)) <= tol * tol
    THEN Hit(s, "rotate", NoIndex, NoEdge)
    ELSE IF ci # 0 THEN Hit(s, "rect-corner", NoIndex, RectCorners(r)[ci].label)
    ELSE IF ei # 0 THEN Hit(s, "rect-edge", NoIndex, RectEdges(r)[ei].label)
    ELSE IF pt.x >= r.x /\ pt.x <= r.x + r.w /\ pt.y >= r.y /\ pt.y <= r.y + r.h
         THEN Hit(s, "move-shape", NoIndex, NoEdge)
    ELSE NoHit

hitRectLocal(s, r, pt, tol) ==
    hitRectPick(s, r, pt, FirstCorner(pt, RectCorners(r), 1, tol),
                FirstEdge(pt, RectEdges(r), 1, tol), tol)

hitRectNorm(s, r, imgPt, tol) ==
    hitRectLocal(s, r, rotatePoint(imgPt, Pt(r.x + r.w \div 2, r.y + r.h \div 2),
                                   NegQ(s.rotation)), tol)

hitRect(s, imgPt, tol) == hitRectNorm(s, normalizeRect(s), imgPt, tol)

(* First vertex (1-based) within tol of pt, 0 when none. *)
RECURSIVE FirstVertex(_, _, _, _)
FirstVertex(pt, points, i, tol) ==
    IF i > Len(points) THEN 0
    ELSE IF dist2(pt, points[i]) <= tol * tol THEN i
    ELSE FirstVertex(pt, points, i + 1, tol)

(* Some segment points[i] -- points[i+1], i < length - 1, within tol of pt. *)
PolySegmentHit(pt, points, tol) ==
    \E i \in 1..(Len(points) - 1) :
        FracLeq(pointToSegDist2(pt, points[i], points[i + 1]), tol * tol)

(* The handle above the bounds' top edge, on the centre's vertical. *)
RotHandleOf(s) == Pt(getShapeCenter(s).x, getShapeBounds(s).y - RotHandleOffset)

(* The pointer in the shape's own frame. *)
LocalPoint(s, imgPt) == rotatePoint(imgPt, getShapeCenter(s), NegQ(s.rotation))

hitPolylinePick(s, pt, vi, tol) ==
    IF dist2(pt, RotHandleOf(s)) <= tol * tol THEN Hit(s, "rotate", NoIndex, NoEdge)
    ELSE IF vi # 0 THEN Hit(s, "poly-vertex", vi - 1, NoEdge)
    ELSE IF PolySegmentHit(pt, s.points, tol) THEN Hit(s, "move-shape", NoIndex, NoEdge)
    ELSE NoHit

hitPolylineLocal(s, pt, tol) == hitPolylinePick(s, pt, FirstVertex(pt, s.points, 1, tol), tol)

hitPolyline(s, imgPt, tol) == hitPolylineLocal(s, LocalPoint(s, imgPt), tol)

(* The node loop of the bezier branch: per node, anchor, then h1, then h2. *)
RECURSIVE FirstNodeHit(_, _, _, _)
FirstNodeHit(s, pt, i, tol) ==
    IF i > Len(s.nodes) THEN NoHit
    ELSE LET n == s.nodes[i]
         IN  IF dist2(pt, n.p) <= tol * tol THEN Hit(s, "bezier-anchor", i - 1, NoEdge)
             ELSE IF HasHandle(n.h1) /\ dist2(pt, n.h1[1]) <= tol * tol
                  THEN Hit(s, "bezier-h1", i - 1, NoEdge)
             ELSE IF HasHandle(n.h2) /\ dist2(pt, n.h2[1]) <= tol * tol
                  THEN Hit(s, "bezier-h2", i - 1, NoEdge)
             ELSE FirstNodeHit(s, pt, i + 1, tol)

BezierCurveHit(pt, nodes, tol) ==
    \E i \in 1..(Len(nodes) - 1) :
        LET a == nodes[i]
            b == nodes[i + 1]
        IN  pointToCubicWithin(pt, a.p, OrElse(a.h2, a.p), OrElse(b.h1, b.p), b.p, tol * tol)

hitBezierPick(s, pt, nh, tol) ==
    IF dist2(pt, RotHandleOf(s)) <= tol * tol THEN Hit(s, "rotate", NoIndex, NoEdge)
    ELSE IF nh.hit THEN nh
    ELSE IF BezierCurveHit(pt, s.nodes, tol) THEN Hit(s, "move-shape", NoIndex, NoEdge)
    ELSE NoHit

hitBezierLocal(s, pt, tol) == hitBezierPick(s, pt, FirstNodeHit(s, pt, 1, tol), tol)

hitBezier(s, imgPt, tol) == hitBezierLocal(s, LocalPoint(s, imgPt), tol)

(* dist2 <= (tol * 1.5)^2, cleared of the fraction. *)
hitPoint(s, imgPt, tol) ==
    IF 4 * dist2(imgPt, s.p) <= 9 * tol * tol
    THEN Hit(s, "move-shape", NoIndex, NoEdge) ELSE NoHit

hitShape(s, imgPt, tol) ==
    CASE s.type = "rect" -> hitRect(s, imgPt, tol)
      [] s.type = "polyline" -> hitPolyline(s, imgPt, tol)
      [] s.type = "bezier" -> hitBezier(s, imgPt, tol)
      [] OTHER -> hitPoint(s, imgPt, tol)

(* The loop's early return: the first hit ends the scan. *)
HitOr(h, rest) == IF h.hit THEN h ELSE rest

RECURSIVE hitTestFrom(_, _, _, _)
hitTestFrom(imgPt, tol, shs, i) ==
    IF i = 0 THEN NoHit
    ELSE HitOr(hitShape(shs[i], imgPt, tol), hitTestFrom(imgPt, tol, shs, i - 1))

(* A scan from the first shape to the last. *)
RECURSIVE hitTestForward(_, _, _)
hitTestForward(imgPt, tol, shs) ==
    IF Len(shs) = 0 THEN NoHit
    ELSE HitOr(hitShape(shs[1], imgPt, tol), hitTestForward(imgPt, tol, Tail(shs)))

(* Scans the collection from the last shape to the first. *)
hitTest(imgPt, tol, shs) == hitTestFrom(imgPt, tol, shs, Len(shs))

(* ---------------- state ---------------- *)

VARIABLES
    shapes,            \* useShapeManipulation: the committed collection
    selectedId,        \* id of the selected shape, NoId for null
    draftRect,         \* NoShape for null
    draftPoly,
    draftBezier,
    dragRef,           \* NoDrag for null
    nextId,            \* genId: the next fresh id
    undoStack,         \* useHistory refs
    redoStack,
    opStarted,
    tool,              \* ImageAnnotator state
    isPanning,
    isRightPanning,
    panStart,          \* usePanZoom: TRUE while panStart.current is set
    detections,
    image,             \* useImageLoader: NoImage for null
    imageId,           \* NoId for null
    currentUploadRef,  \* NoToken for null
    nextToken,         \* Math.random tokens, taken as fresh
    pending,           \* callbacks in flight: decodes, uploads, data-URL loads, detections
    alerts,            \* number of alert() calls so far
    buttons,           \* the environment: which pointer button is held on the canvas
    ev,                \* the handler that ran last and what it was seen to do
    gest,              \* progress of the call sequences the properties speak of
    pts,               \* image points the pointer may be at
    budget,            \* handler runs left
    out                \* the last direct call of a utility function and its result

vars == << shapes, selectedId, draftRect, draftPoly, draftBezier, dragRef, nextId,
           undoStack, redoStack, opStarted, tool, isPanning, isRightPanning, panStart,
           detections, image, imageId, currentUploadRef, nextToken, pending, alerts,
           buttons, ev, gest, pts, budget, out >>

NoId == 0
NoToken == 0
NoImage == [kind |-> "none"]
NoShape == [type |-> "none"]
NoDrag == [kind |-> "none"]
NoCall == [fn |-> "none"]

(* The program state a handler works on.  React state (shapes, selectedId, the
   drafts, tool, ...) is read from the render the handler closed over and set
   through pending updates; refs are read and written in place.  A handler is
   a chain of operators f(c, s): c is the closed-over render, s the state with
   the updates made so far. *)
cur ==
    [ shapes |-> shapes, selectedId |-> selectedId, draftRect |-> draftRect,
      draftPoly |-> draftPoly, draftBezier |-> draftBezier, dragRef |-> dragRef,
      nextId |-> nextId, undoStack |-> undoStack, redoStack |-> redoStack,
      opStarted |-> opStarted, tool |-> tool, isPanning |-> isPanning,
      isRightPanning |-> isRightPanning, panStart |-> panStart,
      detections |-> detections, image |-> image, imageId |-> imageId,
      currentUploadRef |-> currentUploadRef, nextToken |-> nextToken,
      pending |-> pending, alerts |-> alerts,
      \* what the handler is seen to do
      begin |-> "none",      \* its beginOp call: "fresh" pushed, "nested" did not
      mutOutside |-> FALSE,  \* it changed the collection while no operation was open
      mutated |-> FALSE,     \* it changed the collection outside undo/redo
      calls |-> {} ]         \* the hook operations it called, of those noted below

Called(s, name) == [s EXCEPT !.calls = @ \cup {name}]

(* ---------------- useHistory ---------------- *)

deepCloneShape(s) ==
    CASE s.type = "rect" ->
            [type |-> "rect", id |-> s.id, x |-> s.x, y |-> s.y, w |-> s.w, h |-> s.h,
             rotation |-> s.rotation]
      [] s.type = "polyline" ->
            [type |-> "polyline", id |-> s.id,
             points |-> [i \in 1..Len(s.points) |-> Pt(s.points[i].x, s.points[i].y)],
             closed |-> s.closed, rotation |-> s.rotation]
      [] s.type = "bezier" ->
            [type |-> "bezier", id |-> s.id,
             nodes |-> [i \in 1..Len(s.nodes) |->
                 [p |-> Pt(s.nodes[i].p.x, s.nodes[i].p.y),
                  h1 |-> MoveHandle(s.nodes[i].h1, 0, 0),
                  h2 |-> MoveHandle(s.nodes[i].h2, 0, 0)]],
             closed |-> s.closed, rotation |-> s.rotation]
      [] OTHER -> [type |-> "point", id |-> s.id, p |-> Pt(s.p.x, s.p.y)]

deepCloneShapes(arr) == [i \in 1..Len(arr) |-> deepCloneShape(arr[i])]

(* setShapes from the manipulation hook, a handler or the loader. *)
setShapes(s, new) ==
    [s EXCEPT !.shapes = new,
              !.mutated = s.mutated \/ new # s.shapes,
              !.mutOutside = s.mutOutside \/ (new # s.shapes /\ ~s.opStarted)]

(* beginOp that keeps the redo stack. *)
beginOpKeepsRedo(c, s0) ==
    LET s == Called(s0, "beginOp")
    IN
    IF s.opStarted THEN [s EXCEPT !.begin = "nested"]
    ELSE [s EXCEPT !.undoStack = Append(s.undoStack, deepCloneShapes(c.shapes)),
                   !.opStarted = TRUE,
                   !.begin = "fresh"]

beginOp(c, s0) ==
    LET s == Called(s0, "beginOp")
    IN
    IF s.opStarted THEN [s EXCEPT !.begin = "nested"]
    ELSE [s EXCEPT !.undoStack = Append(s.undoStack, deepCloneShapes(c.shapes)),
                   !.redoStack = <<>>,
                   !.opStarted = TRUE,
                   !.begin = "fresh"]

endOp(c, s0) ==
    LET s == Called(s0, "endOp")
    IN  IF ~s.opStarted THEN s ELSE [s EXCEPT !.opStarted = FALSE]

(* undo without the empty-stack return: pop() of an empty array gives
   undefined, which is pushed to redo's partner and set as the collection. *)
undoUnguarded(c, s) ==
    [s EXCEPT !.undoStack = IF Len(s.undoStack) = 0 THEN <<>>
                            ELSE SubSeq(s.undoStack, 1, Len(s.undoStack) - 1),
              !.redoStack = Append(s.redoStack, deepCloneShapes(c.shapes)),
              !.shapes = IF Len(s.undoStack) = 0 THEN <<>>
                         ELSE s.undoStack[Len(s.undoStack)]]

undo(c, s) ==
    IF Len(s.undoStack) = 0 THEN s
    ELSE [s EXCEPT !.undoStack = SubSeq(s.undoStack, 1, Len(s.undoStack) - 1),
                   !.redoStack = Append(s.redoStack, deepCloneShapes(c.shapes)),
                   !.shapes = s.undoStack[Len(s.undoStack)]]

(* redo that pops before it pushes and so pushes onto the wrong base: the
   collection it restores is the one it just saved. *)
redoRestoresCurrent(c, s) ==
    IF Len(s.redoStack) = 0 THEN s
    ELSE [s EXCEPT !.undoStack = Append(s.undoStack, deepCloneShapes(c.shapes)),
                   !.redoStack = SubSeq(s.redoStack, 1, Len(s.redoStack) - 1),
                   !.shapes = deepCloneShapes(c.shapes)]

redo(c, s) ==
    IF Len(s.redoStack) = 0 THEN s
    ELSE [s EXCEPT !.undoStack = Append(s.undoStack, deepCloneShapes(c.shapes)),
                   !.redoStack = SubSeq(s.redoStack, 1, Len(s.redoStack) - 1),
                   !.shapes = s.redoStack[Len(s.redoStack)]]

cancelOp(c, s) == [s EXCEPT !.opStarted = FALSE]

(* ---------------- useShapeManipulation ---------------- *)

RectShape(id, x, y, w, h) ==
    [type |-> "rect", id |-> id, x |-> x, y |-> y, w |-> w, h |-> h, rotation |-> 0]
PolylineShape(id, points) ==
    [type |-> "polyline", id |-> id, points |-> points, closed |-> FALSE, rotation |-> 0]
BezierNode(p, h1, h2) == [p |-> p, h1 |-> h1, h2 |-> h2]
BezierShape(id, nodes) ==
    [type |-> "bezier", id |-> id, nodes |-> nodes, closed |-> FALSE, rotation |-> 0]
PointShape(id, p) == [type |-> "point", id |-> id, p |-> p]

IsNull(v) == v = NoShape

createRect(c, s0, imgPt) ==
    LET s == Called(s0, "createRect")
        r == RectShape(s.nextId, imgPt.x, imgPt.y, 0, 0)
    IN  [s EXCEPT !.draftRect = r, !.selectedId = r.id, !.nextId = s.nextId + 1]

updateDraftRect(c, s0, imgPt) ==
    LET s == Called(s0, "updateDraftRect")
    IN
    IF IsNull(c.draftRect) THEN s
    ELSE [s EXCEPT !.draftRect = [c.draftRect EXCEPT !.w = imgPt.x - c.draftRect.x,
                                                     !.h = imgPt.y - c.draftRect.y]]

(* finalizeDraftRect that commits from an extent of one image unit on. *)
finalizeDraftRectAtLeast(c, s0) ==
    LET s == Called(s0, "finalizeDraftRect")
    IN
    IF IsNull(c.draftRect) THEN s
    ELSE LET r == normalizeRect(c.draftRect)
         IN  IF Abs(r.w) >= MinRectSize /\ Abs(r.h) >= MinRectSize
             THEN [setShapes(s, Append(s.shapes, r)) EXCEPT !.draftRect = NoShape]
             ELSE [s EXCEPT !.draftRect = NoShape]

finalizeDraftRect(c, s0) ==
    LET s == Called(s0, "finalizeDraftRect")
    IN
    IF IsNull(c.draftRect) THEN s
    ELSE LET r == normalizeRect(c.draftRect)
         IN  IF Abs(r.w) > MinRectSize /\ Abs(r.h) > MinRectSize
             THEN [setShapes(s, Append(s.shapes, r)) EXCEPT !.draftRect = NoShape]
             ELSE [s EXCEPT !.draftRect = NoShape]

createPolyline(c, s0, imgPt) ==
    LET s == Called(s0, "createPolyline")
    IN
    IF IsNull(c.draftPoly)
    THEN LET poly == PolylineShape(s.nextId, <<imgPt>>)
         IN  [s EXCEPT !.draftPoly = poly, !.selectedId = poly.id, !.nextId = s.nextId + 1]
    ELSE [s EXCEPT !.draftPoly =
             [c.draftPoly EXCEPT !.points = Append(c.draftPoly.points, imgPt)]]

(* finalizeDraftPoly that commits a draft of a single point. *)
finalizeDraftPolyFromOne(c, s0) ==
    LET s == Called(s0, "finalizeDraftPoly")
    IN
    IF ~IsNull(c.draftPoly) /\ Len(c.draftPoly.points) >= 1
    THEN [setShapes(s, Append(s.shapes, c.draftPoly)) EXCEPT !.draftPoly = NoShape]
    ELSE [s EXCEPT !.draftPoly = NoShape]

finalizeDraftPoly(c, s0) ==
    LET s == Called(s0, "finalizeDraftPoly")
    IN
    IF ~IsNull(c.draftPoly) /\ Len(c.draftPoly.points) >= 2
    THEN [setShapes(s, Append(s.shapes, c.draftPoly)) EXCEPT !.draftPoly = NoShape]
    ELSE [s EXCEPT !.draftPoly = NoShape]

(* A createBezier that joins the new node to the one before by the earlier
   node's outgoing handle alone. *)
createBezierOutgoingOnly(c, s0, imgPt) ==
    LET s == Called(s0, "createBezier")
    IN
    IF IsNull(c.draftBezier)
    THEN LET bz == BezierShape(s.nextId, << BezierNode(imgPt, NoHandle, NoHandle) >>)
         IN  [s EXCEPT !.draftBezier = bz, !.selectedId = bz.id, !.nextId = s.nextId + 1]
    ELSE LET nodes0 == Append(c.draftBezier.nodes, BezierNode(imgPt, NoHandle, NoHandle))
             i == Len(nodes0) - 1
             mid == Pt((nodes0[i].p.x + nodes0[i + 1].p.x) \div 2,
                       (nodes0[i].p.y + nodes0[i + 1].p.y) \div 2)
         IN  [s EXCEPT !.draftBezier =
                 [c.draftBezier EXCEPT !.nodes = [nodes0 EXCEPT ![i].h2 = Some(mid)]]]

createBezier(c, s0, imgPt) ==
    LET s == Called(s0, "createBezier")
    IN
    IF IsNull(c.draftBezier)
    THEN LET bz == BezierShape(s.nextId, << BezierNode(imgPt, NoHandle, NoHandle) >>)
         IN  [s EXCEPT !.draftBezier = bz, !.selectedId = bz.id, !.nextId = s.nextId + 1]
    ELSE LET nodes0 == Append(c.draftBezier.nodes, BezierNode(imgPt, NoHandle, NoHandle))
             i == Len(nodes0) - 1
             a == nodes0[i].p
             b == nodes0[i + 1].p
             mid == Pt((a.x + b.x) \div 2, (a.y + b.y) \div 2)
             nodes == IF Len(nodes0) >= 2
                      THEN [nodes0 EXCEPT ![i].h2 = Some(mid), ![i + 1].h1 = Some(mid)]
                      ELSE nodes0
         IN  [s EXCEPT !.draftBezier = [c.draftBezier EXCEPT !.nodes = nodes]]

finalizeDraftBezier(c, s0) ==
    LET s == Called(s0, "finalizeDraftBezier")
    IN
    IF ~IsNull(c.draftBezier) /\ Len(c.draftBezier.nodes) >= 2
    THEN [setShapes(s, Append(s.shapes, c.draftBezier)) EXCEPT !.draftBezier = NoShape]
    ELSE [s EXCEPT !.draftBezier = NoShape]

(* createPoint with a genId that gives the same id again. *)
createPointSameId(c, s, imgPt) ==
    LET pt == PointShape(s.nextId, imgPt)
    IN  [setShapes(s, Append(s.shapes, pt)) EXCEPT !.selectedId = pt.id]

createPoint(c, s, imgPt) ==
    LET pt == PointShape(s.nextId, imgPt)
    IN  [setShapes(s, Append(s.shapes, pt)) EXCEPT !.selectedId = pt.id,
                                                   !.nextId = s.nextId + 1]

(* cancelDrafts that leaves the Bezier draft. *)
cancelDraftsRectPoly(c, s) ==
    [Called(s, "cancelDrafts") EXCEPT !.draftRect = NoShape, !.draftPoly = NoShape]

cancelDrafts(c, s) ==
    [Called(s, "cancelDrafts") EXCEPT !.draftRect = NoShape, !.draftPoly = NoShape, !.draftBezier = NoShape]

startDragAt(c, s, imgPt, hit) ==
    IF hit.hit
    THEN [Called(s, "startDrag") EXCEPT !.selectedId = hit.shape.id,
                       !.dragRef = [kind |-> hit.kind, shapeId |-> hit.shape.id,
                                    index |-> hit.index, edge |-> hit.edge,
                                    startMouseImg |-> imgPt,
                                    startShape |-> deepCloneShape(hit.shape)]]
    ELSE [s EXCEPT !.selectedId = NoId]

startDrag(c, s, imgPt, tolerance) ==
    startDragAt(c, s, imgPt, hitTest(imgPt, tolerance, c.shapes))

(* The rect branch of updateDrag: the edge label picks the side to move. *)
dragRect(start, edge, dx, dy) ==
    CASE edge = "left" -> [start EXCEPT !.x = start.x + dx,
                                        !.w = start.x + start.w - (start.x + dx)]
      [] edge = "right" -> [start EXCEPT !.w = start.w + dx]
      [] edge = "top" -> [start EXCEPT !.y = start.y + dy,
                                       !.h = start.y + start.h - (start.y + dy)]
      [] edge = "bottom" -> [start EXCEPT !.h = start.h + dy]
      [] OTHER -> start

(* The Bezier branch with an anchor drag that leaves the node's handles. *)
dragBezierAnchorOnly(start, kind, index, dx, dy) ==
    LET node == start.nodes[index + 1]
    IN  CASE kind = "bezier-anchor" ->
                [start EXCEPT !.nodes[index + 1].p = MovePt(node.p, dx, dy)]
          [] kind = "bezier-h1" ->
                [start EXCEPT !.nodes[index + 1].h1 =
                    Some(MovePt(OrElse(node.h1, node.p), dx, dy))]
          [] kind = "bezier-h2" ->
                [start EXCEPT !.nodes[index + 1].h2 =
                    Some(MovePt(OrElse(node.h2, node.p), dx, dy))]
          [] OTHER -> start

dragBezier(start, kind, index, dx, dy) ==
    LET node == start.nodes[index + 1]
    IN  CASE kind = "bezier-anchor" ->
                [start EXCEPT !.nodes[index + 1] =
                    [p |-> MovePt(node.p, dx, dy),
                     h1 |-> MoveHandle(node.h1, dx, dy),
                     h2 |-> MoveHandle(node.h2, dx, dy)]]
          [] kind = "bezier-h1" ->
                [start EXCEPT !.nodes[index + 1].h1 =
                    Some(MovePt(OrElse(node.h1, node.p), dx, dy))]
          [] kind = "bezier-h2" ->
                [start EXCEPT !.nodes[index + 1].h2 =
                    Some(MovePt(OrElse(node.h2, node.p), dx, dy))]
          [] OTHER -> start

(* The shape updateDrag computes from the drag state and the pointer, NoShape
   when it computes none. *)
dragUpdated(d, imgPt) ==
    LET dx == imgPt.x - d.startMouseImg.x
        dy == imgPt.y - d.startMouseImg.y
        start == d.startShape
    IN  IF d.kind = "move-shape" THEN moveShapeBy(start, dx, dy)
        ELSE IF start.type = "rect"
             THEN IF d.kind = "rect-corner" \/ d.kind = "rect-edge"
                  THEN dragRect(start, d.edge, dx, dy)
                  ELSE NoShape
        ELSE IF start.type = "polyline" /\ d.kind = "poly-vertex" /\ d.index # NoIndex
             THEN [start EXCEPT !.points[d.index + 1] =
                      MovePt(start.points[d.index + 1], dx, dy)]
        ELSE IF start.type = "bezier" /\ d.index # NoIndex
             THEN dragBezier(start, d.kind, d.index, dx, dy)
        ELSE NoShape

ReplaceById(shs, updated) ==
    [i \in 1..Len(shs) |-> IF shs[i].id = updated.id THEN updated ELSE shs[i]]

(* updateDrag that applies the offset from the drag start to the shape as it
   is now instead of to the snapshot. *)
updateDragFromLive(c, s0, imgPt) ==
    IF s0.dragRef = NoDrag THEN s0
    ELSE LET s == Called(s0, "updateDrag")
             live == { sh \in { s.shapes[i] : i \in 1..Len(s.shapes) } :
                          sh.id = s.dragRef.shapeId }
             updated == IF live = {} THEN NoShape
                        ELSE dragUpdated([s.dragRef EXCEPT !.startShape =
                                             CHOOSE sh \in live : TRUE], imgPt)
         IN  IF IsNull(updated) THEN s
             ELSE setShapes(s, ReplaceById(s.shapes, updated))

(* updateDrag that writes the updated shape into the collection whether or
   not a shape with its id is still there. *)
updateDragRestoring(c, s0, imgPt) ==
    IF s0.dragRef = NoDrag THEN s0
    ELSE LET s == Called(s0, "updateDrag")
             updated == dragUpdated(s.dragRef, imgPt)
         IN  IF IsNull(updated) THEN s
             ELSE IF \E i \in 1..Len(s.shapes) : s.shapes[i].id = updated.id
                  THEN setShapes(s, ReplaceById(s.shapes, updated))
                  ELSE setShapes(s, Append(s.shapes, updated))

updateDrag(c, s0, imgPt) ==
    IF s0.dragRef = NoDrag THEN s0
    ELSE LET s == Called(s0, "updateDrag")
             updated == dragUpdated(s.dragRef, imgPt)
         IN  IF IsNull(updated) THEN s
             ELSE setShapes(s, ReplaceById(s.shapes, updated))

endDrag(c, s) == [s EXCEPT !.dragRef = NoDrag]

RECURSIVE FilterOutId(_, _)
FilterOutId(shs, id) ==
    IF Len(shs) = 0 THEN <<>>
    ELSE IF shs[1].id = id THEN FilterOutId(Tail(shs), id)
    ELSE <<shs[1]>> \o FilterOutId(Tail(shs), id)

(* deleteSelected that leaves the selection. *)
deleteSelectedKeepsSelection(c, s) ==
    IF c.selectedId = NoId THEN s
    ELSE setShapes(s, FilterOutId(s.shapes, c.selectedId))

deleteSelected(c, s) ==
    IF c.selectedId = NoId THEN s
    ELSE [setShapes(s, FilterOutId(s.shapes, c.selectedId)) EXCEPT !.selectedId = NoId]

moveSelectedByArrows(c, s, dx, dy) ==
    IF c.selectedId = NoId THEN s
    ELSE setShapes(s, [i \in 1..Len(s.shapes) |->
                          IF s.shapes[i].id = c.selectedId
                          THEN moveShapeBy(s.shapes[i], dx, dy) ELSE s.shapes[i]])

(* ---------------- usePanZoom (the pan gesture) ---------------- *)

startPan(c, s) == [s EXCEPT !.panStart = TRUE]
endPan(c, s) == [s EXCEPT !.panStart = FALSE]

(* ---------------- useImageLoader ---------------- *)

FileImage(token) == [kind |-> "file", token |-> token]
DataUrlImage(n) == [kind |-> "dataurl", n |-> n]

(* The callback ImageAnnotator passes to useImageLoader. *)
onReset(c, s) == [setShapes(s, <<>>) EXCEPT !.detections = <<>>]

(* loadImageFromFile up to its return: the decode and the upload are started. *)
loadImageFromFile(c, s, isImageFile) ==
    IF ~isImageFile THEN s
    ELSE LET uploadToken == s.nextToken
         IN  [s EXCEPT !.nextToken = s.nextToken + 1,
                       !.currentUploadRef = uploadToken,
                       !.imageId = NoId,
                       !.pending = s.pending \cup
                           { [kind |-> "decode", token |-> uploadToken],
                             [kind |-> "upload", token |-> uploadToken] }]

(* img.onload of loadImageFromFile *)
fileImgOnload(c, s, req) ==
    LET s1 == [s EXCEPT !.pending = s.pending \ {req}]
    IN  IF s1.currentUploadRef = req.token
        THEN onReset(c, [s1 EXCEPT !.image = FileImage(req.token)])
        ELSE s1

(* img.onerror of loadImageFromFile *)
fileImgOnerror(c, s, req) ==
    LET s1 == [s EXCEPT !.pending = s.pending \ {req}]
    IN  IF s1.currentUploadRef = req.token
        THEN [s1 EXCEPT !.alerts = s1.alerts + 1]
        ELSE s1

(* The identifier the image store returns for the upload started with a token. *)
UploadedId(token) == token

(* The then-callback without the token comparison. *)
uploadThenUnchecked(c, s, req) ==
    [s EXCEPT !.pending = s.pending \ {req}, !.imageId = UploadedId(req.token)]

(* uploadImage(file).then(...) *)
uploadThen(c, s, req) ==
    LET s1 == [s EXCEPT !.pending = s.pending \ {req}]
    IN  IF s1.currentUploadRef = req.token
        THEN [s1 EXCEPT !.imageId = UploadedId(req.token)]
        ELSE s1

(* uploadImage(file).catch(...): console.error only *)
uploadCatch(c, s, req) == [s EXCEPT !.pending = s.pending \ {req}]

loadImageFromDataUrl(c, s, n) ==
    [s EXCEPT !.currentUploadRef = NoToken,
              !.pending = s.pending \cup { [kind |-> "dataurl", n |-> n] }]

(* img.onload of loadImageFromDataUrl *)
dataUrlImgOnload(c, s, req) ==
    onReset(c, [s EXCEPT !.pending = s.pending \ {req},
                         !.image = DataUrlImage(req.n),
                         !.imageId = NoId])

(* A parsed bundle: hasImage says whether image.dataUrl is set. *)
(* The file's text as JSON.parse takes it: ok is FALSE when it throws;
   hasVersion, hasImage and hasShapes tell whether the parsed object has
   version, image.dataUrl and shapes. *)
Bundle(hasImage, n, shs) ==
    [ok |-> TRUE, hasVersion |-> TRUE, hasImage |-> hasImage, n |-> n,
     hasShapes |-> TRUE, shapes |-> shs]
BadJson == [ok |-> FALSE]

importBundle(c, s, bundle) ==
    LET s1 == IF bundle.hasImage THEN loadImageFromDataUrl(c, s, bundle.n) ELSE s
    IN  IF bundle.hasShapes THEN setShapes(s1, bundle.shapes) ELSE s1

(* reader.onload of handleImportJson, with setShapes as onShapesLoaded *)
handleImportJson(c, s, bundle) ==
    IF bundle.ok THEN importBundle(c, s, bundle)
    ELSE [s EXCEPT !.alerts = s.alerts + 1]

(* ---------------- ImageAnnotator ---------------- *)

(* The points the detection service answers for an image identifier. *)
DetectedPoints(id) == << [type |-> "point", id |-> "det-0", p |-> Pt(4 * id, 4 * id)] >>

(* detectFeatures up to its await *)
detectFeatures(c, s) ==
    IF c.imageId = NoId THEN [s EXCEPT !.alerts = s.alerts + 1]
    ELSE [s EXCEPT !.pending = s.pending \cup { [kind |-> "detect", imageId |-> c.imageId] }]

(* detectFeatures after the await: the response arrived *)
detectResolved(c, s, req) ==
    [s EXCEPT !.pending = s.pending \ {req}, !.detections = DetectedPoints(req.imageId)]

detectRejected(c, s, req) ==
    [s EXCEPT !.pending = s.pending \ {req}, !.alerts = s.alerts + 1]

setToolAndFinalize(c, s, newTool) ==
    LET s1 == IF ~IsNull(c.draftPoly) THEN finalizeDraftPoly(c, s) ELSE s
        s2 == IF ~IsNull(c.draftBezier) THEN finalizeDraftBezier(c, s1) ELSE s1
    IN  [s2 EXCEPT !.tool = newTool]

InPanMode(c) == c.tool = "pan" \/ c.isPanning

(* The select branch of onPointerDown, hit being the hit test's result. *)
selectAt(c, s, imgPt, hit) ==
    IF hit.hit
    THEN startDrag(c, [beginOp(c, s) EXCEPT !.selectedId = hit.shape.id], imgPt, Tol)
    ELSE [s EXCEPT !.selectedId = NoId]

onPointerDown(c, s, imgPt, button) ==
    IF c.image = NoImage THEN s
    ELSE IF button = 2
         THEN startPan(c, [setToolAndFinalize(c, s, "select") EXCEPT !.isRightPanning = TRUE])
    ELSE IF InPanMode(c) THEN startPan(c, s)
    ELSE IF c.tool = "rect" THEN createRect(c, beginOp(c, s), imgPt)
    ELSE IF c.tool = "poly"
         THEN createPolyline(c, IF IsNull(c.draftPoly) THEN beginOp(c, s) ELSE s, imgPt)
    ELSE IF c.tool = "bezier"
         THEN createBezier(c, IF IsNull(c.draftBezier) THEN beginOp(c, s) ELSE s, imgPt)
    ELSE IF c.tool = "point" THEN endOp(c, createPoint(c, beginOp(c, s), imgPt))
    ELSE IF c.tool = "select" THEN selectAt(c, s, imgPt, hitTest(imgPt, Tol, c.shapes))
    ELSE s

onPointerMove(c, s, imgPt) ==
    IF InPanMode(c) \/ c.isRightPanning THEN s   \* updatePan: only the pan offset moves
    ELSE IF c.image = NoImage THEN s
    ELSE IF ~IsNull(c.draftRect) THEN updateDraftRect(c, s, imgPt)
    ELSE updateDrag(c, s, imgPt)

onPointerUp(c, s) ==
    IF InPanMode(c) \/ c.isRightPanning
    THEN [endPan(c, s) EXCEPT !.isRightPanning = FALSE]
    ELSE IF ~IsNull(c.draftRect) THEN endOp(c, finalizeDraftRect(c, s))
    ELSE endOp(c, endDrag(c, s))

onKeyDelete(c, s) ==
    IF c.selectedId # NoId THEN endOp(c, deleteSelected(c, beginOp(c, s))) ELSE s

(* dx, dy: the arrow's step in screen pixels, 1 or 10 with Shift, signed. *)
onKeyArrow(c, s, dx, dy) ==
    IF c.selectedId = NoId THEN s
    ELSE endOp(c, moveSelectedByArrows(c, beginOp(c, s),
                                       (dx * Scale) \div Zoom, (dy * Scale) \div Zoom))

onKeyEnter(c, s) ==
    IF ~IsNull(c.draftPoly) THEN finalizeDraftPoly(c, s)
    ELSE IF ~IsNull(c.draftBezier) THEN finalizeDraftBezier(c, s)
    ELSE s

onKeyEscape(c, s) == cancelOp(c, cancelDrafts(c, s))

(* ---------------- bounds and inputs ---------------- *)

MaxSteps == 5

(* Image points of the pointer. *)
PBody == Pt(60, 80)
PFar == Pt(100, 120)

(* A collection as an imported bundle brings it: one rectangle. *)
R1 == RectShape(101, 40, 60, 40, 40)
ImportedShapes == << R1 >>

(* Files that parse and are no annotation bundles: the object {}, and an
   object that has a list under shapes and no version. *)
EmptyObject == [Bundle(FALSE, 0, <<>>) EXCEPT !.hasVersion = FALSE, !.hasShapes = FALSE]
ShapesOnly == [Bundle(FALSE, 0, << PointShape(107, PFar) >>) EXCEPT !.hasVersion = FALSE]

Bundles == { Bundle(FALSE, 0, ImportedShapes), Bundle(TRUE, 1, ImportedShapes), BadJson,
             EmptyObject, ShapesOnly }

Tools == {"select", "pan", "rect", "poly", "bezier", "point"}

(* Arrow keys: the step in screen pixels, 10 with Shift. *)
ArrowSteps == { <<1, 0>>, <<0, -10>> }

(* ---------------- progress of the call sequences ---------------- *)

Idle == [phase |-> "idle"]

(* beginOp; changes of the collection; endOp; undo; redo. *)
BeginEndNext(g, name, c, s) ==
    IF "beginOp" \in s.calls
    THEN IF "endOp" \in s.calls
         THEN [phase |-> "ended", A |-> c.shapes, B |-> s.shapes,
               nested |-> s.begin = "nested"]
         ELSE [phase |-> "begun", A |-> c.shapes, nested |-> s.begin = "nested"]
    ELSE IF g.phase = "begun" /\ name = "PointerMove" THEN g
    ELSE IF g.phase = "begun" /\ "endOp" \in s.calls
         THEN [phase |-> "ended", A |-> g.A, B |-> s.shapes, nested |-> g.nested]
    ELSE IF g.phase = "ended" /\ name = "Undo" THEN [g EXCEPT !.phase = "undone"]
    ELSE IF g.phase = "undone" /\ name = "Redo" THEN [g EXCEPT !.phase = "redone"]
    ELSE Idle

(* One select-tool drag: pointer down on a shape; pointer moves, each noted
   with the collection it left; pointer up; then an undo. *)
DragNext(g, name, arg, c, s) ==
    IF name = "PointerDown" /\ "startDrag" \in s.calls
    THEN [phase |-> "dragging", pre |-> c.shapes, preLen |-> Len(c.undoStack),
          start |-> arg, seen |-> {}]
    ELSE IF g.phase = "dragging" /\ name = "PointerMove"
         THEN [g EXCEPT !.seen = @ \cup { << arg, s.shapes >> }]
    ELSE IF g.phase = "dragging" /\ name = "PointerUp" THEN [g EXCEPT !.phase = "dropped"]
    ELSE IF g.phase = "dropped" /\ name = "Undo" THEN [g EXCEPT !.phase = "undone"]
    ELSE Idle

HasDraft(s) == ~IsNull(s.draftRect) \/ ~IsNull(s.draftPoly) \/ ~IsNull(s.draftBezier)

(* A draft gesture that called beginOp; its pointer events; Escape; an undo. *)
DraftNext(g, name, c, s) ==
    IF name = "PointerDown" /\ "beginOp" \in s.calls
       /\ s.calls \cap {"createRect", "createPolyline", "createBezier"} # {}
    THEN [phase |-> "drafting"]
    ELSE IF g.phase = "drafting" /\ name \in {"PointerDown", "PointerMove", "PointerUp"}
            /\ HasDraft(s) /\ c.tool \in {"rect", "poly", "bezier"} /\ ~c.isPanning
         THEN g
    ELSE IF g.phase = "drafting" /\ name = "KeyEscape"
         THEN [phase |-> "aborted", pre |-> s.shapes]
    ELSE IF g.phase = "aborted" /\ name = "Undo" THEN [g EXCEPT !.phase = "undone"]
    ELSE Idle

(* An import of a well-formed bundle, and the callbacks it started: the load
   of the embedded image when there is one. *)
ImportNext(g, name, arg) ==
    IF name = "ImportJson" /\ arg.ok /\ arg.hasVersion /\ arg.hasShapes
    THEN IF arg.hasImage
         THEN [phase |-> "waiting", n |-> arg.n, shapes |-> arg.shapes]
         ELSE [phase |-> "done", shapes |-> arg.shapes]
    ELSE IF g.phase = "waiting" /\ name = "DataUrlImgOnload" /\ arg = g.n
         THEN [phase |-> "done", shapes |-> g.shapes]
    ELSE Idle

(* One rectangle draft: createRect at P; updateDraftRect, the last one at Q;
   finalizeDraftRect. *)
RectNext(g, name, arg, c, s) ==
    IF "createRect" \in s.calls
    THEN [phase |-> "placed", P |-> arg, Q |-> arg, pre |-> c.shapes]
    ELSE IF g.phase \in {"placed", "sized"} /\ "updateDraftRect" \in s.calls
         THEN [g EXCEPT !.phase = "sized", !.Q = arg]
    ELSE IF g.phase = "sized" /\ "finalizeDraftRect" \in s.calls
         THEN [g EXCEPT !.phase = "finalized"]
    ELSE Idle

(* One gesture from the handler that called beginOp to the handler that
   called endOp, with the undo, redo and Escape keys that came in between. *)
OpNext(g, name, c, s) ==
    IF "beginOp" \in s.calls
    THEN IF "endOp" \in s.calls
         THEN [phase |-> "closed", A |-> c.shapes, B |-> s.shapes, mid |-> {}]
         ELSE [phase |-> "open", A |-> c.shapes, mid |-> {}]
    ELSE IF g.phase = "open" /\ "endOp" \in s.calls
         THEN [phase |-> "closed", A |-> g.A, B |-> s.shapes, mid |-> g.mid]
    ELSE IF g.phase = "open"
         THEN [g EXCEPT !.mid = @ \cup ({name} \cap {"Undo", "Redo", "KeyEscape"})]
    ELSE Idle

(* The ids of the shapes of a collection, and of the collections of a stack. *)
IdsOf(shs) == { shs[i].id : i \in 1..Len(shs) }
IdsOfStack(stack) == UNION { IdsOf(stack[k]) : k \in 1..Len(stack) }

(* The load of a new image file that reset the collection, with the ids of
   the shapes of the image before: those of the collection and of both
   stacks. An import after it brings shapes of its own, as does the image of
   a bundle, and ends the observation. *)
ImageNext(g, name, arg, c, s) ==
    IF name = "FileImgOnload" /\ c.currentUploadRef = arg
    THEN [phase |-> "loaded",
          old |-> IdsOf(c.shapes) \cup IdsOfStack(c.undoStack) \cup IdsOfStack(c.redoStack)]
    ELSE IF name \in {"ImportJson", "DataUrlImgOnload"} THEN Idle
    ELSE g

GestNext(name, arg, c, s) ==
    [ be |-> BeginEndNext(gest.be, name, c, s),
      rect |-> RectNext(gest.rect, name, arg, c, s),
      drag |-> DragNext(gest.drag, name, arg, c, s),
      draft |-> DraftNext(gest.draft, name, c, s),
      imp |-> ImportNext(gest.imp, name, arg),
      op |-> OpNext(gest.op, name, c, s),
      img |-> ImageNext(gest.img, name, arg, c, s) ]

(* ---------------- the handlers as actions ---------------- *)

(* The handler `name` ran on the current render and left the state s. *)
Commit(name, arg, s) ==
    /\ budget > 0
    /\ budget' = budget - 1
    /\ pts' = pts
    /\ out' = out
    /\ shapes' = s.shapes
    /\ selectedId' = s.selectedId
    /\ draftRect' = s.draftRect
    /\ draftPoly' = s.draftPoly
    /\ draftBezier' = s.draftBezier
    /\ dragRef' = s.dragRef
    /\ nextId' = s.nextId
    /\ undoStack' = s.undoStack
    /\ redoStack' = s.redoStack
    /\ opStarted' = s.opStarted
    /\ tool' = s.tool
    /\ isPanning' = s.isPanning
    /\ isRightPanning' = s.isRightPanning
    /\ panStart' = s.panStart
    /\ detections' = s.detections
    /\ image' = s.image
    /\ imageId' = s.imageId
    /\ currentUploadRef' = s.currentUploadRef
    /\ nextToken' = s.nextToken
    /\ pending' = s.pending
    /\ alerts' = s.alerts
    /\ buttons' = IF name = "PointerDown" THEN "left"
                  ELSE IF name = "PointerDownRight" THEN "right"
                  ELSE IF name = "PointerUp" THEN "none"
                  ELSE buttons
    /\ ev' = [name |-> name, arg |-> arg, begin |-> s.begin, calls |-> s.calls,
              mutated |-> s.mutated, mutOutside |-> s.mutOutside]
    /\ gest' = GestNext(name, arg, cur, s)

(* A button goes down on the canvas only when none is held there, and up only
   when one is; the toolbar is clicked with the pointer, so not while a button
   is held on the canvas. *)
PointerDown == buttons = "none" /\ \E p \in pts : Commit("PointerDown", p, onPointerDown(cur, cur, p, 0))
PointerDownRight == buttons = "none" /\ \E p \in pts : Commit("PointerDownRight", p, onPointerDown(cur, cur, p, 2))
PointerMove == \E p \in pts : Commit("PointerMove", p, onPointerMove(cur, cur, p))
PointerUp == buttons # "none" /\ Commit("PointerUp", 0, onPointerUp(cur, cur))
KeyDelete == Commit("KeyDelete", 0, onKeyDelete(cur, cur))
KeyArrow == \E d \in ArrowSteps : Commit("KeyArrow", d, onKeyArrow(cur, cur, d[1], d[2]))
KeyEnter == Commit("KeyEnter", 0, onKeyEnter(cur, cur))
KeyEscape == Commit("KeyEscape", 0, onKeyEscape(cur, cur))
Undo == Commit("Undo", 0, undo(cur, cur))
Redo == Commit("Redo", 0, redo(cur, cur))
SpaceDown == Commit("SpaceDown", 0, [cur EXCEPT !.isPanning = TRUE])
SpaceUp == Commit("SpaceUp", 0, [cur EXCEPT !.isPanning = FALSE])
SetTool == buttons = "none" /\ \E t \in Tools : Commit("SetTool", t, setToolAndFinalize(cur, cur, t))
ContextMenu == Commit("ContextMenu", 0, setToolAndFinalize(cur, cur, "select"))
ImportJson == \E b \in Bundles : Commit("ImportJson", b, handleImportJson(cur, cur, b))
LoadImageFromFile ==
    \E isImageFile \in BOOLEAN :
        Commit("LoadImageFromFile", isImageFile, loadImageFromFile(cur, cur, isImageFile))
FileImgOnload ==
    \E req \in pending : /\ req.kind = "decode"
                         /\ Commit("FileImgOnload", req.token, fileImgOnload(cur, cur, req))
FileImgOnerror ==
    \E req \in pending : /\ req.kind = "decode"
                         /\ Commit("FileImgOnerror", req.token, fileImgOnerror(cur, cur, req))
UploadThen ==
    \E req \in pending : /\ req.kind = "upload"
                         /\ Commit("UploadThen", req.token, uploadThen(cur, cur, req))
UploadCatch ==
    \E req \in pending : /\ req.kind = "upload"
                         /\ Commit("UploadCatch", req.token, uploadCatch(cur, cur, req))
DataUrlImgOnload ==
    \E req \in pending : /\ req.kind = "dataurl"
                         /\ Commit("DataUrlImgOnload", req.n, dataUrlImgOnload(cur, cur, req))
DetectFeatures == Commit("DetectFeatures", 0, detectFeatures(cur, cur))
DetectResolved ==
    \E req \in pending : /\ req.kind = "detect"
                         /\ Commit("DetectResolved", req.imageId, detectResolved(cur, cur, req))
DetectRejected ==
    \E req \in pending : /\ req.kind = "detect"
                         /\ Commit("DetectRejected", req.imageId, detectRejected(cur, cur, req))

EditorNext ==
    \/ PointerDown \/ PointerDownRight \/ PointerMove \/ PointerUp
    \/ KeyDelete \/ KeyArrow \/ KeyEnter \/ KeyEscape
    \/ Undo \/ Redo \/ SpaceDown \/ SpaceUp \/ SetTool \/ ContextMenu

LoaderNext ==
    \/ ImportJson \/ LoadImageFromFile \/ FileImgOnload \/ FileImgOnerror
    \/ UploadThen \/ UploadCatch \/ DataUrlImgOnload
    \/ DetectFeatures \/ DetectResolved \/ DetectRejected

Next == EditorNext \/ LoaderNext

(* The state after construction. *)
InitProgram ==
    /\ shapes = <<>> /\ selectedId = NoId
    /\ draftRect = NoShape /\ draftPoly = NoShape /\ draftBezier = NoShape
    /\ dragRef = NoDrag /\ nextId = 1
    /\ undoStack = <<>> /\ redoStack = <<>> /\ opStarted = FALSE
    /\ tool = "select" /\ isPanning = FALSE /\ isRightPanning = FALSE /\ panStart = FALSE
    /\ detections = <<>>
    /\ image = NoImage /\ imageId = NoId /\ currentUploadRef = NoToken /\ nextToken = 1
    /\ pending = {} /\ alerts = 0

InitGhost ==
    /\ ev = [name |-> "Init", arg |-> 0, begin |-> "none", calls |-> {},
             mutated |-> FALSE, mutOutside |-> FALSE]
    /\ gest = [be |-> Idle, rect |-> Idle, drag |-> Idle, draft |-> Idle, imp |-> Idle,
               op |-> Idle, img |-> Idle]
    /\ buttons = "none"
    /\ out = NoCall

(* An image file was loaded (decoded and uploaded) and a bundle without an
   image was imported after it: the state the handlers LoadImageFromFile,
   FileImgOnload, UploadThen and ImportJson lead to from InitProgram. *)
InitLoaded ==
    /\ shapes = ImportedShapes /\ selectedId = NoId
    /\ draftRect = NoShape /\ draftPoly = NoShape /\ draftBezier = NoShape
    /\ dragRef = NoDrag /\ nextId = 1
    /\ undoStack = <<>> /\ redoStack = <<>> /\ opStarted = FALSE
    /\ tool = "select" /\ isPanning = FALSE /\ isRightPanning = FALSE /\ panStart = FALSE
    /\ detections = <<>>
    /\ image = FileImage(1) /\ imageId = UploadedId(1) /\ currentUploadRef = 1
    /\ nextToken = 2 /\ pending = {} /\ alerts = 0

Init ==
    /\ InitProgram \/ InitLoaded
    /\ InitGhost
    /\ pts = {PBody, PFar}
    /\ budget = MaxSteps

Spec == Init /\ [][Next]_vars

(* Longer sequences of pointer gestures, with the space bar, the tool buttons,
   Escape and Ctrl-Z between them, on a loaded image. *)
MaxGestureSteps == 8

InitGestures ==
    /\ InitLoaded
    /\ InitGhost
    /\ pts = {PBody, PFar}
    /\ budget = MaxGestureSteps

NextGestures ==
    \/ PointerDown \/ PointerMove \/ PointerUp
    \/ SpaceDown \/ SpaceUp \/ SetTool \/ KeyEscape \/ Undo

SpecGestures == InitGestures /\ [][NextGestures]_vars

(* The image loader from construction on: file loads, imports, detections and
   their callbacks in every order. *)
MaxLoaderSteps == 7

InitLoader ==
    /\ InitProgram
    /\ InitGhost
    /\ pts = {PBody}
    /\ budget = MaxLoaderSteps

SpecLoader == InitLoader /\ [][LoaderNext]_vars

(* Drags of every kind: one shape of each type on a loaded image, and pointer
   positions on its body, its handles and off it. *)
MaxDragSteps == 5

P1 == PolylineShape(102, << Pt(20, 60), Pt(100, 60), Pt(100, 120) >>)
B1 == BezierShape(103, << BezierNode(Pt(20, 100), Some(Pt(20, 60)), Some(Pt(60, 100))),
                          BezierNode(Pt(100, 100), Some(Pt(100, 60)), NoHandle) >>)
D1 == PointShape(104, Pt(60, 80))

DragCases ==
    { [shapes |-> << R1 >>,
       pts |-> {Pt(60, 80), Pt(40, 60), Pt(60, 60), Pt(80, 80), Pt(60, 20), Pt(100, 120),
                Pt(20, 80)}],
      [shapes |-> << P1 >>,
       pts |-> {Pt(60, 60), Pt(20, 60), Pt(100, 120), Pt(60, 20), Pt(40, 100)}],
      [shapes |-> << B1 >>,
       pts |-> {Pt(76, 84), Pt(20, 100), Pt(20, 60), Pt(60, 100), Pt(60, 60), Pt(100, 20)}],
      [shapes |-> << R1, B1 >>,
       pts |-> {Pt(20, 100), Pt(100, 100), Pt(60, 20)}],
      [shapes |-> << D1 >>,
       pts |-> {Pt(60, 80), Pt(100, 120), Pt(20, 20)}] }

InitDrag ==
    /\ \E dc \in DragCases : shapes = dc.shapes /\ pts = dc.pts
    /\ selectedId = NoId
    /\ draftRect = NoShape /\ draftPoly = NoShape /\ draftBezier = NoShape
    /\ dragRef = NoDrag /\ nextId = 1
    /\ undoStack = <<>> /\ redoStack = <<>> /\ opStarted = FALSE
    /\ tool = "select" /\ isPanning = FALSE /\ isRightPanning = FALSE /\ panStart = FALSE
    /\ detections = <<>>
    /\ image = FileImage(1) /\ imageId = UploadedId(1) /\ currentUploadRef = 1
    /\ nextToken = 2 /\ pending = {} /\ alerts = 0
    /\ InitGhost
    /\ budget = MaxDragSteps

NextDrag == PointerDown \/ PointerMove \/ PointerUp

SpecDrag == InitDrag /\ [][NextDrag]_vars

(* Drafts of every kind: the drawing tools on a loaded image that holds one
   rectangle, with pointer positions one image unit, more than one and less
   than one apart, in every direction, and Enter, Escape and the tool buttons
   between the clicks. *)
MaxDraftSteps == 5

DraftPts == { Pt(40, 40), Pt(42, 48), Pt(48, 48), Pt(100, 20) }
DraftTools == {"rect", "poly", "bezier"}

InitDraft ==
    /\ shapes = ImportedShapes /\ selectedId = NoId
    /\ draftRect = NoShape /\ draftPoly = NoShape /\ draftBezier = NoShape
    /\ dragRef = NoDrag /\ nextId = 1
    /\ undoStack = <<>> /\ redoStack = <<>> /\ opStarted = FALSE
    /\ tool \in DraftTools
    /\ isPanning = FALSE /\ isRightPanning = FALSE /\ panStart = FALSE
    /\ detections = <<>>
    /\ image = FileImage(1) /\ imageId = UploadedId(1) /\ currentUploadRef = 1
    /\ nextToken = 2 /\ pending = {} /\ alerts = 0
    /\ InitGhost
    /\ pts = DraftPts
    /\ budget = MaxDraftSteps

NextDraft ==
    \/ PointerDown \/ PointerMove \/ PointerUp
    \/ KeyEnter \/ KeyEscape \/ SetTool

SpecDraft == InitDraft /\ [][NextDraft]_vars

(* Editing a collection of three shapes on a loaded image with every handler
   of the editor: selection, drags, drafts, points, Delete, the arrow keys,
   undo and redo. *)
MaxEditSteps == 5

D2 == PointShape(105, Pt(100, 120))
D3 == PointShape(106, Pt(20, 20))
EditShapes == << R1, D2, D3 >>

InitEdit ==
    /\ shapes = EditShapes /\ selectedId = NoId
    /\ draftRect = NoShape /\ draftPoly = NoShape /\ draftBezier = NoShape
    /\ dragRef = NoDrag /\ nextId = 1
    /\ undoStack = <<>> /\ redoStack = <<>> /\ opStarted = FALSE
    /\ tool = "select" /\ isPanning = FALSE /\ isRightPanning = FALSE /\ panStart = FALSE
    /\ detections = <<>>
    /\ image = FileImage(1) /\ imageId = UploadedId(1) /\ currentUploadRef = 1
    /\ nextToken = 2 /\ pending = {} /\ alerts = 0
    /\ InitGhost
    /\ pts = {PBody, PFar, Pt(20, 20)}
    /\ budget = MaxEditSteps

SpecEdit == InitEdit /\ [][EditorNext]_vars

(* The utility functions called directly: hitTest on collections of
   overlapping, rotated and reversed rectangles, at the tolerance of zoom 1
   and of zoom 1/4, and normalizeRect on rectangles of every sign of extent
   and again on its own result. *)
MaxExtent == 2
MaxNormalize == 2
MaxDelta == 1
MaxZoomSteps == 2

RA == RectShape(201, 20, 40, 60, 60)
RB == RectShape(202, 40, 60, 60, 60)
RC == RectShape(203, 100, 20, 16, 16)
RN == RectShape(204, 80, 100, -60, -60)
RQ == [RA EXCEPT !.rotation = 1]
(* A closed triangle, as an imported bundle can carry. *)
PC == [PolylineShape(206, << Pt(20, 40), Pt(100, 40), Pt(100, 120) >>) EXCEPT !.closed = TRUE]
(* A path whose first node's outgoing handle has been dragged next to the
   second node's anchor. *)
B2 == BezierShape(205, << BezierNode(Pt(20, 100), NoHandle, Some(Pt(90, 100))),
                          BezierNode(Pt(100, 100), Some(Pt(100, 60)), NoHandle) >>)

HitCollections ==
    { << RA >>, << RB >>, << RN >>, << RQ >>, << RA, RB >>, << RB, RA >>,
      << RA, RB, RC >>, << RN, RB >>, << D1, RA >>, << P1 >>, << B1 >>, << P1, B1 >>,
      << B2 >>, << PC >> }
HitPts == { Pt(x, y) : x \in {20, 30, 50, 60, 80, 100, 120}, y \in {0, 40, 50, 70, 80, 100, 120} }
HitTols == { Tol, 4 * Tol }
Extents == { k * Scale : k \in (-MaxExtent)..MaxExtent }
DraftRects == { RectShape(1, 40, 40, w, h) : w \in Extents, h \in Extents }
Deltas == { << 5 * Scale * i, 5 * Scale * j >> : i, j \in (-MaxDelta)..MaxDelta }

InitGeometry ==
    /\ \/ shapes \in HitCollections /\ draftRect = NoShape /\ tool = "select"
       \/ shapes = << >> /\ draftRect \in DraftRects /\ tool = "rect"
    /\ selectedId = NoId
    /\ draftPoly = NoShape /\ draftBezier = NoShape
    /\ dragRef = NoDrag /\ nextId = 2
    /\ undoStack = <<>> /\ redoStack = <<>> /\ opStarted = FALSE
    /\ isPanning = FALSE /\ isRightPanning = FALSE /\ panStart = FALSE
    /\ detections = <<>>
    /\ image = FileImage(1) /\ imageId = UploadedId(1) /\ currentUploadRef = 1
    /\ nextToken = 2 /\ pending = {} /\ alerts = 0
    /\ InitGhost
    /\ pts = HitPts
    /\ budget = 0

(* hitTest(p, tol, shapes) is called and its result noted. *)
ApplyHitTest ==
    /\ shapes # << >> /\ out = NoCall
    /\ \E p \in pts, tol \in HitTols :
          out' = [fn |-> "hitTest", pt |-> p, tol |-> tol, res |-> hitTest(p, tol, shapes)]
    /\ UNCHANGED << shapes, selectedId, draftRect, draftPoly, draftBezier, dragRef, nextId,
                    undoStack, redoStack, opStarted, tool, isPanning, isRightPanning,
                    panStart, detections, image, imageId, currentUploadRef, nextToken,
                    pending, alerts, buttons, ev, gest, pts, budget >>

(* normalizeRect is called on the draft rectangle, or again on the result of
   the call before, and its result noted. *)
ApplyNormalizeRect ==
    /\ ~IsNull(draftRect)
    /\ \/ out' = [fn |-> "normalizeRect", arg |-> draftRect, n |-> 1,
                   res |-> normalizeRect(draftRect)]
       \/ /\ out.fn = "normalizeRect" /\ out.n < MaxNormalize
          /\ out' = [fn |-> "normalizeRect", arg |-> out.res, n |-> out.n + 1,
                     res |-> normalizeRect(out.res)]
    /\ UNCHANGED << shapes, selectedId, draftRect, draftPoly, draftBezier, dragRef, nextId,
                    undoStack, redoStack, opStarted, tool, isPanning, isRightPanning,
                    panStart, detections, image, imageId, currentUploadRef, nextToken,
                    pending, alerts, buttons, ev, gest, pts, budget >>

(* The call noted in out; the program's state is not touched. *)
Noted(call) ==
    /\ out' = call
    /\ UNCHANGED << shapes, selectedId, draftRect, draftPoly, draftBezier, dragRef, nextId,
                    undoStack, redoStack, opStarted, tool, isPanning, isRightPanning,
                    panStart, detections, image, imageId, currentUploadRef, nextToken,
                    pending, alerts, buttons, ev, gest, pts, budget >>

(* moveShapeBy is called on a shape of the collection, or on the result of
   the call before with the opposite offset. *)
ApplyMoveShapeBy ==
    \/ /\ out = NoCall
       /\ \E i \in 1..Len(shapes), d \in Deltas :
             Noted([fn |-> "moveShapeBy", orig |-> shapes[i], arg |-> shapes[i],
                    dx |-> d[1], dy |-> d[2], n |-> 1,
                    res |-> moveShapeBy(shapes[i], d[1], d[2])])
    \/ /\ out.fn = "moveShapeBy" /\ out.n = 1
       /\ Noted([fn |-> "moveShapeBy", orig |-> out.orig, arg |-> out.res,
                 dx |-> -out.dx, dy |-> -out.dy, n |-> 2,
                 res |-> moveShapeBy(out.res, -out.dx, -out.dy)])

(* 6/5 to the power k, the zoom after k steps of zoomIn. *)
RECURSIVE ZoomInSteps(_)
ZoomInSteps(k) == IF k = 0 THEN Rat(1, 1) ELSE RMul(ZoomInSteps(k - 1), Rat(6, 5))

(* The zoom levels: the limits 1/10 and 20, and up to MaxZoomSteps steps of
   zoomIn or zoomOut from 1. *)
Zooms ==
    {MinZoom, MaxZoom} \cup { ZoomInSteps(k) : k \in 0..MaxZoomSteps }
        \cup { RDiv(Rat(1, 1), ZoomInSteps(k)) : k \in 1..MaxZoomSteps }
RPt(xn, xd, yn, yd) == [x |-> Rat(xn, xd), y |-> Rat(yn, yd)]
Pans == { RPt(0, 1, 0, 1), RPt(-30, 1, 17, 1), RPt(201, 2, 50, 1) }
CoordPts == { RPt(0, 1, 0, 1), RPt(41, 2, -7, 1), RPt(120, 1, 90, 1), RPt(-5, 3, 64, 1) }

(* imageToScreen and screenToImage are called on a point, or one of them on
   the result of the other with the same zoom and pan. *)
ApplyCoordinates ==
    \/ /\ out = NoCall
       /\ \E p \in CoordPts, zoom \in Zooms, pan \in Pans :
             \/ Noted([fn |-> "imageToScreen", orig |-> p, arg |-> p, zoom |-> zoom,
                       pan |-> pan, n |-> 1, res |-> imageToScreen(p, zoom, pan)])
             \/ Noted([fn |-> "screenToImage", orig |-> p, arg |-> p, zoom |-> zoom,
                       pan |-> pan, n |-> 1, res |-> screenToImage(p, zoom, pan)])
    \/ /\ out.fn = "imageToScreen" /\ out.n = 1
       /\ Noted([out EXCEPT !.fn = "screenToImage", !.arg = out.res, !.n = 2,
                            !.res = screenToImage(out.res, out.zoom, out.pan)])
    \/ /\ out.fn = "screenToImage" /\ out.n = 1
       /\ Noted([out EXCEPT !.fn = "imageToScreen", !.arg = out.res, !.n = 2,
                            !.res = imageToScreen(out.res, out.zoom, out.pan)])

(* Widths and heights of images and of the view, in pixels; an image that
   has not decoded has width and height 0. *)
ImageSizes == { <<800, 600>>, <<600, 800>>, <<100, 100>>, <<8000, 100>>, <<10, 10>>,
                <<333, 200>>, <<0, 0>> }
ViewSizes == { <<400, 300>>, <<900, 600>> }

(* zoomToFit is called for an image and a view. *)
ApplyZoomToFit ==
    /\ out = NoCall
    /\ \E i \in ImageSizes, v \in ViewSizes :
          Noted([fn |-> "zoomToFit", iw |-> i[1], ih |-> i[2], cw |-> v[1], ch |-> v[2],
                 res |-> zoomToFit(i[1], i[2], v[1], v[2])])

(* The hook's state after construction: initialZoom 1, pan (0, 0). *)
InitialPanZoom == [zoom |-> Rat(1, 1), pan |-> RPt(0, 1, 0, 1)]

(* The hook's state after the last call, the initial one before any call. *)
PanZoomNow == IF out = NoCall THEN InitialPanZoom ELSE [zoom |-> out.zoom, pan |-> out.pan]

(* The call op of the hook with the state z it leaves, the n-th of a row. *)
PanZoomCall(op, z, n) ==
    Noted([fn |-> "usePanZoom", op |-> op, n |-> n, zoom |-> z.zoom, pan |-> z.pan])

MaxZoomCalls == 3
WheelPts == { RPt(120, 1, 90, 1) }
FitSizes == { <<8000, 100>>, <<10, 10>>, <<800, 600>>, <<0, 0>> }

(* A wheel event, zoomIn, zoomOut or zoomToFit on the hook, up to
   MaxZoomCalls of them in a row. *)
ApplyPanZoom ==
    /\ out = NoCall \/ (out.fn = "usePanZoom" /\ out.n < MaxZoomCalls)
    /\ LET z == PanZoomNow
           n == IF out = NoCall THEN 1 ELSE out.n + 1
       IN  \/ \E mouse \in WheelPts, down \in BOOLEAN :
                 PanZoomCall("onWheel", onWheel(z, mouse, down), n)
           \/ PanZoomCall("zoomIn", zoomIn(z), n)
           \/ PanZoomCall("zoomOut", zoomOut(z), n)
           \/ \E i \in FitSizes :
                 PanZoomCall("zoomToFit", zoomToFitOn(z, i[1], i[2], 400, 300), n)

(* ---------------- shapeHelpers.ts: toPathD ---------------- *)

MoveTo(p) == [op |-> "M", p |-> p]
CurveTo(c1, c2, p) == [op |-> "C", c1 |-> c1, c2 |-> c2, p |-> p]
ClosePath == [op |-> "Z"]

(* toPathD(nodes, closed): the commands of the path text, in order. *)
toPathD(nodes, closed) ==
    IF Len(nodes) = 0 THEN << >>
    ELSE LET first == nodes[1]
             open == << MoveTo(first.p) >> \o
                     [i \in 1..(Len(nodes) - 1) |->
                         CurveTo(OrElse(nodes[i].h2, nodes[i].p),
                                 OrElse(nodes[i + 1].h1, nodes[i + 1].p), nodes[i + 1].p)]
             last == nodes[Len(nodes)]
         IN  IF closed /\ Len(nodes) > 2
             THEN open \o << CurveTo(OrElse(last.h2, last.p), OrElse(first.h1, first.p),
                                     first.p),
                             ClosePath >>
             ELSE open

(* Node sequences: none, one node, two nodes, three nodes with some handles
   missing, three nodes with every handle. *)
PathNodes ==
    { << >>,
      << BezierNode(Pt(20, 100), NoHandle, NoHandle) >>,
      B1.nodes, B2.nodes,
      << BezierNode(Pt(20, 100), NoHandle, Some(Pt(60, 100))),
         BezierNode(Pt(100, 100), Some(Pt(60, 100)), Some(Pt(100, 60))),
         BezierNode(Pt(100, 20), Some(Pt(100, 60)), NoHandle) >>,
      << BezierNode(Pt(20, 100), Some(Pt(20, 60)), Some(Pt(60, 100))),
         BezierNode(Pt(100, 100), Some(Pt(60, 100)), Some(Pt(100, 60))),
         BezierNode(Pt(100, 20), Some(Pt(100, 60)), Some(Pt(60, 20))) >> }

(* toPathD is called on a node sequence, with the closed flag or without. *)
ApplyToPathD ==
    /\ out = NoCall
    /\ \E nodes \in PathNodes, closed \in BOOLEAN :
          Noted([fn |-> "toPathD", nodes |-> nodes, closed |-> closed,
                 res |-> toPathD(nodes, closed)])

(* ---------------- utils/api.ts ---------------- *)

IMAGE_STORE_SERVICE_URL == "http://localhost:8000"
FEATURE_DETECTION_SERVICE_URL == "http://localhost:8001"

(* Reading property name of a parsed body: << >> stands for undefined, the
   value of a property the object does not have. *)
Field(body, name) == IF name \in DOMAIN body THEN << body[name] >> ELSE << >>

(* An argument that may be left out: << >> when the caller does not give it,
   << v >> when the caller gives v. *)
OrDefault(arg, default) == IF arg = << >> THEN default ELSE arg[1]

(* uploadImage(file) with res the response fetch resolves to: the requests
   made, whether the call threw, and the value it resolved to. *)
uploadImage(file, res) ==
    [requests |-> << [url |-> IMAGE_STORE_SERVICE_URL \o "/images", method |-> "POST",
                      form |-> [file |-> file]] >>,
     threw |-> ~res.ok,
     value |-> IF res.ok THEN Field(res.body, "id") ELSE << >>]

(* JSON.stringify of an object whose properties are << v >> for the value v
   and << >> for undefined: a property whose value is undefined is left out
   of the text, so the object read back has only the others. *)
JSONStringify(obj) ==
    [k \in { n \in DOMAIN obj : obj[n] # << >> } |-> obj[k][1]]

(* A variant of requestFeatureDetection that asks for the overlay unless the
   caller declines it. *)
requestFeatureDetectionOverlay(image_id, pattern, params, returnOverlay, res) ==
    [requests |-> << [url |-> FEATURE_DETECTION_SERVICE_URL \o "/detect_pattern",
                      method |-> "POST",
                      headers |-> [ContentType |-> "application/json"],
                      body |-> JSONStringify(
                               [image_id |-> << image_id >>, pattern |-> << pattern >>,
                                params |-> << OrDefault(params, << >>) >>,
                                return_overlay |-> << OrDefault(returnOverlay, TRUE) >>])] >>,
     threw |-> ~res.ok,
     value |-> IF res.ok THEN << res.body >> ELSE << >>]

(* requestFeatureDetection(imageId, pattern, params, returnOverlay), its
   first argument written image_id here, with res the response fetch resolves to; params defaults to the empty object and
   returnOverlay to false. *)
requestFeatureDetection(image_id, pattern, params, returnOverlay, res) ==
    [requests |-> << [url |-> FEATURE_DETECTION_SERVICE_URL \o "/detect_pattern",
                      method |-> "POST",
                      headers |-> [ContentType |-> "application/json"],
                      body |-> JSONStringify(
                               [image_id |-> << image_id >>, pattern |-> << pattern >>,
                                params |-> << OrDefault(params, << >>) >>,
                                return_overlay |-> << OrDefault(returnOverlay, FALSE) >>])] >>,
     threw |-> ~res.ok,
     value |-> IF res.ok THEN << res.body >> ELSE << >>]

(* Responses of the image store: the body the service's test answers with, a
   body that carries the identifier as id, and a refusal. *)
UploadResponses ==
    { [ok |-> TRUE, body |-> [image_id |-> "abc123", bytes |-> 12, filename |-> "test.png"]],
      [ok |-> TRUE, body |-> [id |-> "abc123"]],
      [ok |-> TRUE, body |-> [id |-> "old", image_id |-> "abc123"]],
      [ok |-> FALSE, body |-> [detail |-> "too large"]] }
Files == { "test.png", "board.jpg" }

(* Responses of the detection service. *)
DetectResponses ==
    { [ok |-> TRUE, body |-> [points |-> << >>]],
      [ok |-> TRUE, body |-> [points |-> << [x |-> 10, y |-> 20, id |-> 0] >>]],
      [ok |-> FALSE, body |-> [detail |-> "no pattern"]] }
Patterns == { "chessboard", "charuco" }
PatternParams == { << >>, << [rows |-> 7, cols |-> 7] >>, << << >> >> }
Overlays == { << >>, << FALSE >>, << TRUE >> }

(* uploadImage or requestFeatureDetection is called and the response arrives. *)
ApplyApi ==
    /\ out = NoCall
    /\ \/ \E file \in Files, res \in UploadResponses :
             Noted([fn |-> "uploadImage", file |-> file, response |-> res,
                    res |-> uploadImage(file, res)])
       \/ \E pattern \in Patterns, params \in PatternParams, overlay \in Overlays,
             res \in DetectResponses :
             Noted([fn |-> "requestFeatureDetection", imageId |-> "img1",
                    pattern |-> pattern, params |-> params, returnOverlay |-> overlay,
                    response |-> res,
                    res |-> requestFeatureDetection("img1", pattern, params, overlay, res)])

NextGeometry ==
    \/ ApplyHitTest \/ ApplyNormalizeRect \/ ApplyMoveShapeBy \/ ApplyCoordinates
    \/ ApplyZoomToFit \/ ApplyApi \/ ApplyToPathD \/ ApplyPanZoom

SpecGeometry == InitGeometry /\ [][NextGeometry]_vars

(* ---------------- properties ---------------- *)

ShapesChanged(g) == g.A # g.B

(* C1 as stated: after beginOp, a change of the collection from A to B, endOp
   and undo, the collection equals A; after a redo right then, it equals B. *)
C1_AnyBegin ==
    /\ gest.be.phase = "undone" => shapes = gest.be.A
    /\ gest.be.phase = "redone" => shapes = gest.be.B

(* C1, amended: when beginOp is called while no operation is open, then after
   the change from A to B, endOp and undo the collection equals A, and after a
   redo right then it equals B. *)
C1_FreshBegin ==
    /\ gest.be.phase = "undone" /\ ~gest.be.nested => shapes = gest.be.A
    /\ gest.be.phase = "redone" /\ ~gest.be.nested => shapes = gest.be.B

C1_Witness ==
    /\ gest.be.phase = "redone" /\ ~gest.be.nested
    /\ ShapesChanged(gest.be) /\ shapes = gest.be.B

(* C2: one select-tool drag (pointer down on a shape, any number of moves,
   pointer up) adds exactly one snapshot to the undo stack, and one undo right
   after the pointer-up gives back the collection as it was before the
   pointer-down. *)
C2_OneSnapshotPerDrag ==
    /\ gest.drag.phase = "dropped" => Len(undoStack) = gest.drag.preLen + 1
    /\ gest.drag.phase = "undone" => shapes = gest.drag.pre

(* C3: undo and redo aside, a handler changes the committed collection only
   while a history operation is open. *)
C3_MutationsBracketed == ev.mutated => ~ev.mutOutside

(* C4: a handler's beginOp, called while no operation is open, pushes one
   snapshot equal to the current collection and empties the redo stack;
   called while an operation is open, it changes neither stack. *)
C4_BeginOp ==
    [][ "beginOp" \in ev'.calls =>
           IF ~opStarted
           THEN undoStack' = Append(undoStack, shapes) /\ redoStack' = <<>>
           ELSE UNCHANGED << undoStack, redoStack >> ]_vars

C4_Witness ==
    /\ ev.begin = "fresh" /\ undoStack # <<>> /\ undoStack[Len(undoStack)] # <<>>
    /\ ev.name = "PointerDown" /\ Len(undoStack) = 1 /\ gest.be.phase = "begun"

(* C5: undo on an empty undo stack and redo on an empty redo stack change
   neither the collection nor the stacks nor the open-operation flag, and
   raise no alert. *)
C5_EmptyStackNoOp ==
    [][ /\ ev'.name = "Undo" /\ undoStack = <<>> =>
             UNCHANGED << shapes, undoStack, redoStack, opStarted, alerts >>
        /\ ev'.name = "Redo" /\ redoStack = <<>> =>
             UNCHANGED << shapes, undoStack, redoStack, opStarted, alerts >> ]_vars

(* An undo has just run and the redo stack is empty, so the undo stack was
   empty when it ran; the collection is not empty. *)
C5_Witness ==
    /\ ev.name = "Undo" /\ redoStack = <<>> /\ undoStack = <<>> /\ shapes # <<>>

(* C6: cancelOp clears the open-operation flag and neither pushes nor pops a
   stack; when Escape aborts a draft gesture that had called beginOp, the top
   of the undo stack equals the current collection, and an undo right after
   leaves the collection as it is. *)
C6_CancelOp ==
    [][ /\ "cancelOp" \in ev'.calls =>
              ~opStarted' /\ UNCHANGED << undoStack, redoStack >>
        /\ gest'.draft.phase = "aborted" =>
              undoStack' # <<>> /\ undoStack'[Len(undoStack')] = shapes'
        /\ gest'.draft.phase = "undone" => shapes' = gest'.draft.pre ]_vars

(* C7: importing a well-formed bundle, with or without an embedded image,
   ends, once every callback the import started has run, with the collection
   equal to the bundle's shapes in the bundle's order. *)
C7_ImportKeepsShapes == gest.imp.phase = "done" => shapes = gest.imp.shapes

(* C8: once loadImageFromFile was called for a file B after a file A, the
   upload id of A is not the stored imageId and the decoded image of A does
   not become the displayed image, whichever order the decodes and uploads of
   A and B complete in. *)
C8_SupersededLoadDiscarded ==
    [][ \A a \in 1..(nextToken' - 2) :
            /\ imageId' # UploadedId(a)
            /\ image' = FileImage(a) => image = FileImage(a) ]_vars

(* Two loads were started before either completed; all four completions have
   run, one of the first load's last; the second load's image and id stand. *)
C8_Witness ==
    /\ nextToken = 3 /\ pending = {}
    /\ ev.name \in {"FileImgOnload", "UploadThen"} /\ ev.arg = 1
    /\ image = FileImage(2) /\ imageId = UploadedId(2)

(* C9: the points of a detection request issued for one image are not on
   display once a later image is the displayed one. *)
C9_StaleDetectionsDiscarded ==
    \A a \in 1..(nextToken - 1) :
        image.kind = "file" /\ a < image.token => detections # DetectedPoints(UploadedId(a))

(* C10: during one drag, the collection after an updateDrag depends on the
   drag-start snapshot and the pointer position of that call only: a position
   visited twice gives the same result whatever was visited between, and the
   drag-start position gives the pre-drag geometry back, for every drag kind. *)
C10_DragFromSnapshot ==
    gest.drag.phase = "dragging" /\ ev.name = "PointerMove" =>
        /\ \A e \in gest.drag.seen : e[1] = ev.arg => e[2] = shapes
        /\ ev.arg = gest.drag.start => shapes = gest.drag.pre

(* A handle drag moved the shape away and the pointer is back at the start. *)
C10_Witness ==
    /\ gest.drag.phase = "dragging" /\ ev.name = "PointerMove"
    /\ ev.arg = gest.drag.start /\ shapes = gest.drag.pre
    /\ dragRef.kind = "bezier-h1"
    /\ \E e \in gest.drag.seen : e[2] # gest.drag.pre

(* The shape of the collection shs that carries the id. *)
ShapeOf(shs, id) == CHOOSE sh \in { shs[i] : i \in 1..Len(shs) } : sh.id = id

(* C11: while a rectangle is dragged by a corner ("left top", "right top",
   "left bottom", "right bottom"), the two sides that meet at the corner are
   moved by the pointer's offset from the drag start and the two opposite
   sides stay where they were at the drag start. *)
C11_CornerDrag ==
    gest.drag.phase = "dragging" /\ ev.name = "PointerMove" /\ dragRef.kind = "rect-corner" =>
        LET a == dragRef.startShape
            b == ShapeOf(shapes, dragRef.shapeId)
            dx == ev.arg.x - gest.drag.start.x
            dy == ev.arg.y - gest.drag.start.y
        IN  /\ IF dragRef.edge \in {"left top", "left bottom"}
               THEN b.x = a.x + dx /\ b.x + b.w = a.x + a.w
               ELSE b.x = a.x /\ b.x + b.w = a.x + a.w + dx
            /\ IF dragRef.edge \in {"left top", "right top"}
               THEN b.y = a.y + dy /\ b.y + b.h = a.y + a.h
               ELSE b.y = a.y /\ b.y + b.h = a.y + a.h + dy

(* p and r lie on one ray from c. *)
SameDirection(p, r, c) ==
    /\ (p.x - c.x) * (r.y - c.y) - (p.y - c.y) * (r.x - c.x) = 0
    /\ (p.x - c.x) * (r.x - c.x) + (p.y - c.y) * (r.y - c.y) > 0

(* C12: while a shape is dragged by its rotation handle, its rotation is the
   rotation at the drag start plus the angle the pointer has swept about the
   shape's centre since the drag start (here: whenever that angle is a whole
   number q of quarter turns); with the pointer back on the ray of the drag
   start (q = 0) the rotation is the original one. *)
C12_RotateDrag ==
    gest.drag.phase = "dragging" /\ ev.name = "PointerMove" /\ dragRef.kind = "rotate" =>
        LET a == dragRef.startShape
            b == ShapeOf(shapes, dragRef.shapeId)
        IN  \A q \in 0..3 :
                SameDirection(rotatePoint(gest.drag.start, getShapeCenter(a), q),
                              ev.arg, getShapeCenter(a))
                    => b.rotation = (a.rotation + q) % 4

(* The handle h shifted by (dx, dy), absent when h is. *)
ShiftedHandle(h, dx, dy) ==
    IF h = <<>> THEN <<>> ELSE << [x |-> h[1].x + dx, y |-> h[1].y + dy] >>

(* C13: while the anchor of node i of a Bezier path is dragged with the
   pointer (dx, dy) off the drag start, that node's anchor and each handle it
   has are those of the drag start shifted by exactly (dx, dy), a handle it
   has not stays absent, and every other node of the path and every other
   shape of the collection is as it was at the drag start. *)
C13_AnchorDrag ==
    gest.drag.phase = "dragging" /\ ev.name = "PointerMove" /\ dragRef.kind = "bezier-anchor" =>
        LET pre == gest.drag.pre
            dx == ev.arg.x - gest.drag.start.x
            dy == ev.arg.y - gest.drag.start.y
        IN  /\ Len(shapes) = Len(pre)
            /\ \A k \in 1..Len(pre) :
                 IF pre[k].id # dragRef.shapeId THEN shapes[k] = pre[k]
                 ELSE /\ [shapes[k] EXCEPT !.nodes = <<>>] = [pre[k] EXCEPT !.nodes = <<>>]
                      /\ Len(shapes[k].nodes) = Len(pre[k].nodes)
                      /\ \A j \in 1..Len(pre[k].nodes) :
                           IF j # dragRef.index + 1
                           THEN shapes[k].nodes[j] = pre[k].nodes[j]
                           ELSE /\ shapes[k].nodes[j].p =
                                     [x |-> pre[k].nodes[j].p.x + dx,
                                      y |-> pre[k].nodes[j].p.y + dy]
                                /\ shapes[k].nodes[j].h1 =
                                     ShiftedHandle(pre[k].nodes[j].h1, dx, dy)
                                /\ shapes[k].nodes[j].h2 =
                                     ShiftedHandle(pre[k].nodes[j].h2, dx, dy)

(* The anchor of a node with two handles was dragged off its place and
   another shape is in the collection. *)
C13_Witness ==
    /\ gest.drag.phase = "dragging" /\ ev.name = "PointerMove"
    /\ dragRef.kind = "bezier-anchor" /\ dragRef.index = 0
    /\ ev.arg # gest.drag.start /\ Len(shapes) = 2
    /\ shapes[2].nodes[1].h1 # <<>> /\ shapes[2].nodes[1].h2 # <<>>
    /\ shapes[2].nodes[1].p = ev.arg

(* C14: createRect at P, updateDraftRect to Q and finalizeDraftRect, with Q
   more than one image unit from P along x and along y, leave the collection
   as it was before with exactly one rectangle added at its end, and that
   rectangle has x = min(Px, Qx), y = min(Py, Qy), w = |Qx - Px| and
   h = |Qy - Py|, whichever way Q lies from P. *)
C14_RectFromTwoCorners ==
    /\ gest.rect.phase = "finalized"
    /\ Abs(gest.rect.Q.x - gest.rect.P.x) > 1 * Scale
    /\ Abs(gest.rect.Q.y - gest.rect.P.y) > 1 * Scale
    => /\ Len(shapes) = Len(gest.rect.pre) + 1
       /\ SubSeq(shapes, 1, Len(gest.rect.pre)) = gest.rect.pre
       /\ shapes[Len(shapes)].type = "rect"
       /\ shapes[Len(shapes)].x = Min2(gest.rect.P.x, gest.rect.Q.x)
       /\ shapes[Len(shapes)].y = Min2(gest.rect.P.y, gest.rect.Q.y)
       /\ shapes[Len(shapes)].w = Abs(gest.rect.Q.x - gest.rect.P.x)
       /\ shapes[Len(shapes)].h = Abs(gest.rect.Q.y - gest.rect.P.y)

(* A rectangle drawn from its right bottom corner to its left top corner was
   committed behind the rectangle that was there. *)
C14_Witness ==
    /\ gest.rect.phase = "finalized"
    /\ gest.rect.Q.x < gest.rect.P.x - 1 * Scale
    /\ gest.rect.Q.y < gest.rect.P.y - 1 * Scale
    /\ Len(shapes) = 2 /\ shapes[1] = R1
    /\ shapes[2].x = gest.rect.Q.x /\ shapes[2].y = gest.rect.Q.y /\ shapes[2].w > 0

(* C15: finalizeDraftRect adds the draft to the collection only if the
   draft's width and height both exceed one image unit in absolute value;
   otherwise the collection stays as it is; either way the draft is cleared
   and no alert is raised. *)
C15_RectThreshold ==
    [][ "finalizeDraftRect" \in ev'.calls =>
           /\ draftRect' = NoShape /\ alerts' = alerts
           /\ IF Abs(draftRect.w) > 1 * Scale /\ Abs(draftRect.h) > 1 * Scale
              THEN /\ Len(shapes') = Len(shapes) + 1
                   /\ SubSeq(shapes', 1, Len(shapes)) = shapes
                   /\ shapes'[Len(shapes')].id = draftRect.id
              ELSE shapes' = shapes ]_vars

(* A draft exactly one image unit wide and four high was finalized: it is
   gone and the collection is the one from before. *)
C15_Witness ==
    /\ "finalizeDraftRect" \in ev.calls /\ gest.rect.phase = "finalized"
    /\ Abs(gest.rect.Q.x - gest.rect.P.x) = 1 * Scale
    /\ Abs(gest.rect.Q.y - gest.rect.P.y) > 1 * Scale
    /\ shapes = gest.rect.pre /\ draftRect = NoShape /\ alerts = 0

(* A handler that finalized a polyline or Bezier draft committed it, as the
   last shape of the collection, exactly when it held minPoly points or
   minBezier nodes at least, left the collection as it was otherwise, cleared
   the draft and raised no alert. *)
FinalizeCommitsFrom(minPoly, minBezier) ==
    /\ "finalizeDraftPoly" \in ev'.calls /\ ~IsNull(draftPoly) =>
          /\ draftPoly' = NoShape /\ alerts' = alerts
          /\ IF Len(draftPoly.points) >= minPoly
             THEN shapes' = Append(shapes, draftPoly)
             ELSE shapes' = shapes
    /\ "finalizeDraftBezier" \in ev'.calls /\ ~IsNull(draftBezier) =>
          /\ draftBezier' = NoShape /\ alerts' = alerts
          /\ IF Len(draftBezier.nodes) >= minBezier
             THEN shapes' = Append(shapes, draftBezier)
             ELSE shapes' = shapes

(* C16 as stated: finalizing a polyline draft commits it exactly when it holds
   one point at least, finalizing a Bezier draft exactly when it holds two
   nodes at least; a draft below that is discarded, the collection unchanged
   and no alert raised. *)
C16_MinCountAsStated == [][ FinalizeCommitsFrom(1, 2) ]_vars

(* C16, amended: finalizing a polyline draft commits it exactly when it holds
   two points at least, finalizing a Bezier draft exactly when it holds two
   nodes at least; a draft below that is discarded, the collection unchanged
   and no alert raised. *)
C16_MinCount == [][ FinalizeCommitsFrom(2, 2) ]_vars

(* Enter committed a polyline draft of exactly two points behind the
   rectangle that was there. *)
C16_Witness ==
    /\ ev.name = "KeyEnter" /\ "finalizeDraftPoly" \in ev.calls
    /\ draftPoly = NoShape /\ Len(shapes) = 2
    /\ shapes[2].type = "polyline" /\ Len(shapes[2].points) = 2

(* C17: a handler that creates, extends or updates a rectangle, polyline or
   Bezier draft, or calls cancelDrafts, leaves the committed collection as it
   is; after cancelDrafts the three drafts are absent. *)
C17_DraftsApart ==
    [][ /\ ev'.calls \cap {"createRect", "updateDraftRect", "createPolyline",
                           "createBezier", "cancelDrafts"} # {}
              => shapes' = shapes
        /\ "cancelDrafts" \in ev'.calls
              => draftRect' = NoShape /\ draftPoly' = NoShape /\ draftBezier' = NoShape ]_vars

(* Escape came upon a Bezier draft: the drafts are gone and the collection is
   the one from the start. *)
C17_Witness ==
    /\ ev.name = "KeyEscape" /\ "cancelDrafts" \in ev.calls
    /\ gest.draft.phase = "aborted" /\ tool = "bezier" /\ nextId = 2
    /\ draftRect = NoShape /\ draftPoly = NoShape /\ draftBezier = NoShape
    /\ shapes = ImportedShapes

(* p lies inside the unrotated rectangle r of positive extents, farther than
   tol from each of its sides. *)
DeepInside(r, p, tol) ==
    /\ r.type = "rect" /\ r.rotation = 0 /\ r.w > 0 /\ r.h > 0
    /\ p.x - r.x > tol /\ r.x + r.w - p.x > tol
    /\ p.y - r.y > tol /\ r.y + r.h - p.y > tol

(* p lies farther than tol from the unrotated rectangle r of positive extents
   and from its rotation handle. *)
FarOutside(r, p, tol) ==
    /\ r.type = "rect" /\ r.rotation = 0 /\ r.w > 0 /\ r.h > 0
    /\ \/ p.x < r.x - tol \/ p.x > r.x + r.w + tol
       \/ p.y < r.y - RotHandleOffset - tol \/ p.y > r.y + r.h + tol

(* C18: hitTest scans the collection from the last-inserted shape to the
   first and returns the first match: for a point inside rectangles of the
   collection and on no handle of them, it returns the last-inserted of those
   rectangles, as a body hit, when every shape inserted after that one is a
   rectangle the point is far from; so of two overlapping rectangles it
   returns the later-inserted one and not the earlier. *)
C18_LastInsertedFirst ==
    out.fn = "hitTest" =>
        \A j \in 1..Len(shapes) :
            /\ DeepInside(shapes[j], out.pt, out.tol)
            /\ \A k \in (j + 1)..Len(shapes) : FarOutside(shapes[k], out.pt, out.tol)
            => /\ out.res.hit /\ out.res.shape = shapes[j]
               /\ out.res.kind = "move-shape"

(* The point is inside the first and the second rectangle of the collection,
   on no handle, and the second is returned. *)
C18_Witness ==
    /\ out.fn = "hitTest" /\ Len(shapes) >= 2
    /\ DeepInside(shapes[1], out.pt, out.tol) /\ DeepInside(shapes[2], out.pt, out.tol)
    /\ out.res.hit /\ out.res.shape = shapes[2] /\ shapes[1].id # shapes[2].id

(* Squared distance from p to the segment from (lo, at) to (hi, at) along one
   axis, u being p's coordinate along the segment and v the one across. *)
AxisSegDist2(u, v, lo, hi, at) ==
    LET du == IF u < lo THEN lo - u ELSE IF u > hi THEN u - hi ELSE 0
    IN  du * du + (v - at) * (v - at)

(* The part of the box b (x, y, w >= 0, h >= 0) that p, in the box's frame, is
   on: the rotation handle, else a corner, else a side, else the body. *)
RectPart(b, p, tol) ==
    IF (p.x - (b.x + b.w \div 2)) * (p.x - (b.x + b.w \div 2))
         + (p.y - (b.y - 20 * Scale)) * (p.y - (b.y - 20 * Scale)) <= tol * tol
    THEN "rotate"
    ELSE IF \E cx \in {b.x, b.x + b.w}, cy \in {b.y, b.y + b.h} :
                (p.x - cx) * (p.x - cx) + (p.y - cy) * (p.y - cy) <= tol * tol
    THEN "rect-corner"
    ELSE IF \/ \E at \in {b.y, b.y + b.h} :
                   AxisSegDist2(p.x, p.y, b.x, b.x + b.w, at) <= tol * tol
            \/ \E at \in {b.x, b.x + b.w} :
                   AxisSegDist2(p.y, p.x, b.y, b.y + b.h, at) <= tol * tol
    THEN "rect-edge"
    ELSE IF p.x >= b.x /\ p.x <= b.x + b.w /\ p.y >= b.y /\ p.y <= b.y + b.h
    THEN "move-shape"
    ELSE "none"

(* The box a rectangle covers, with non-negative extents. *)
BoxOf(r) ==
    [x |-> Min2(r.x, r.x + r.w), y |-> Min2(r.y, r.y + r.h), w |-> Abs(r.w), h |-> Abs(r.h)]

(* C19: on a collection of one rectangle hitTest tests, for the point taken
   into the rectangle's frame, the rotation handle, then the corners, then the
   edges, then the body, and returns the first that matches: a point within
   tolerance of a corner and of an edge gives rect-corner, one within
   tolerance of the rotation handle gives rotate whatever else it is near,
   and a point on none of them gives no hit. *)
C19_RectOrder ==
    out.fn = "hitTest" /\ Len(shapes) = 1 /\ shapes[1].type = "rect" =>
        LET b == BoxOf(shapes[1])
            p == rotatePoint(out.pt, Pt(b.x + b.w \div 2, b.y + b.h \div 2),
                             NegQ(shapes[1].rotation))
        IN  /\ out.res.hit = (RectPart(b, p, out.tol) # "none")
            /\ out.res.hit =>
                  out.res.kind = RectPart(b, p, out.tol) /\ out.res.shape = shapes[1]

(* The point is off the corner, within tolerance of it and of the top side,
   and the corner is returned. *)
C19_Witness ==
    /\ out.fn = "hitTest" /\ shapes = << RA >>
    /\ out.pt = Pt(30, 40) /\ out.tol = Tol
    /\ AxisSegDist2(out.pt.x, out.pt.y, RA.x, RA.x + RA.w, RA.y) <= Tol * Tol
    /\ out.res.hit /\ out.res.kind = "rect-corner" /\ out.res.edge = "left top"

(* C20: normalizeRect returns the rectangle with width and height not
   negative that covers the same area: along each axis the same two bounds,
   the origin moved by the extent where the extent was negative and kept
   where it was not, every other field kept; and applied to its own result it
   returns that result. *)
C20_NormalizeRect ==
    out.fn = "normalizeRect" =>
        /\ out.res.w >= 0 /\ out.res.h >= 0
        /\ {out.res.x, out.res.x + out.res.w} = {out.arg.x, out.arg.x + out.arg.w}
        /\ {out.res.y, out.res.y + out.res.h} = {out.arg.y, out.arg.y + out.arg.h}
        /\ out.res.x = IF out.arg.w < 0 THEN out.arg.x + out.arg.w ELSE out.arg.x
        /\ out.res.y = IF out.arg.h < 0 THEN out.arg.y + out.arg.h ELSE out.arg.y
        /\ [out.res EXCEPT !.x = 0, !.y = 0, !.w = 0, !.h = 0]
             = [out.arg EXCEPT !.x = 0, !.y = 0, !.w = 0, !.h = 0]
        /\ out.n >= 2 => out.res = out.arg

(* A draft of negative width and height was normalized, its origin moved, and
   normalizeRect applied to the result gave the result again. *)
C20_Witness ==
    /\ out.fn = "normalizeRect" /\ out.n = 2 /\ out.res = out.arg
    /\ draftRect.w < 0 /\ draftRect.h < 0
    /\ out.res.x = draftRect.x + draftRect.w /\ out.res.y = draftRect.y + draftRect.h
    /\ out.res.w = -draftRect.w /\ out.res.h = -draftRect.h

(* The points that define a shape, in order: a rectangle's origin, a
   polyline's points, a Bezier path's anchors and handles (an absent handle
   as the empty sequence), a point shape's point. *)
DefiningPoints(s) ==
    CASE s.type = "rect" -> << << s.x, s.y, s.w, s.h >> >>
      [] s.type = "polyline" -> s.points
      [] s.type = "bezier" ->
            [i \in 1..Len(s.nodes) |-> << s.nodes[i].p, s.nodes[i].h1, s.nodes[i].h2 >>]
      [] OTHER -> << s.p >>

(* C21: for a shape s of any kind and any dx, dy (coordinates and offsets on
   the grid), moveShapeBy(moveShapeBy(s, dx, dy), -dx, -dy) has the kind, the
   id and the defining points of s, Bezier handles included, an absent handle
   still absent. *)
C21_MoveRoundTrip ==
    out.fn = "moveShapeBy" /\ out.n = 2 =>
        /\ out.res.type = out.orig.type /\ out.res.id = out.orig.id
        /\ DefiningPoints(out.res) = DefiningPoints(out.orig)

(* A Bezier path with an absent handle was moved off its place and back. *)
C21_Witness ==
    /\ out.fn = "moveShapeBy" /\ out.n = 2 /\ out.orig = B1
    /\ out.dx # 0 /\ out.dy # 0 /\ out.arg # B1 /\ out.res = B1
    /\ B1.nodes[2].h2 = <<>> /\ out.arg.nodes[2].h2 = <<>>

(* C22: for every zoom > 0 within the zoom limits, every pan and every point
   p, screenToImage(imageToScreen(p, zoom, pan), zoom, pan) is p, and
   imageToScreen(screenToImage(p, zoom, pan), zoom, pan) is p (in exact
   arithmetic). *)
C22_CoordinatesRoundTrip ==
    out.fn \in {"screenToImage", "imageToScreen"} /\ out.n = 2 =>
        REq(out.res.x, out.orig.x) /\ REq(out.res.y, out.orig.y)

(* An image point off the grid went to the screen at zoom 25/36 with a pan
   off the grid, to another place, and back. *)
C22_Witness ==
    /\ out.fn = "screenToImage" /\ out.n = 2
    /\ REq(out.zoom, Rat(25, 36)) /\ out.pan = RPt(201, 2, 50, 1)
    /\ out.orig = RPt(41, 2, -7, 1) /\ ~REq(out.arg.x, out.orig.x)
    /\ REq(out.res.x, out.orig.x) /\ REq(out.res.y, out.orig.y)

(* The zoom at which the image just fits the view: the smaller of view width
   over image width and view height over image height. *)
FitRatio(iw, ih, cw, ch) == IF cw * ih <= ch * iw THEN Rat(cw, iw) ELSE Rat(ch, ih)

(* C23: for an image of non-zero width and height zoomToFit sets the zoom to
   min(viewWidth / imageWidth, viewHeight / imageHeight), to the lower zoom
   limit when that is below it and to the upper limit when it is above it,
   and sets the pan so that the centre of the scaled image is the centre of
   the view; an 800x600 image in a 400x300 view gets zoom 1/2 and pan (0, 0). *)
C23_ZoomToFit ==
    out.fn = "zoomToFit" /\ out.iw # 0 /\ out.ih # 0 =>
        LET k == FitRatio(out.iw, out.ih, out.cw, out.ch)
            z == out.res.zoom
        IN  /\ out.res.set
            /\ REq(z, IF RLess(k, Rat(1, 10)) THEN Rat(1, 10)
                      ELSE IF RLess(Rat(20, 1), k) THEN Rat(20, 1) ELSE k)
            /\ REq(RAdd(RMul(Rat(2, 1), out.res.pan.x), RMul(Rat(out.iw, 1), z)),
                   Rat(out.cw, 1))
            /\ REq(RAdd(RMul(Rat(2, 1), out.res.pan.y), RMul(Rat(out.ih, 1), z)),
                   Rat(out.ch, 1))
            /\ out.iw = 800 /\ out.ih = 600 /\ out.cw = 400 /\ out.ch = 300
                 => /\ REq(z, Rat(1, 2))
                    /\ REq(out.res.pan.x, Rat(0, 1)) /\ REq(out.res.pan.y, Rat(0, 1))

(* A tall image in a wide view: the height ratio is the smaller one, the zoom
   is within the limits, and the image is centred with room left and right. *)
C23_Witness ==
    /\ out.fn = "zoomToFit" /\ out.iw = 600 /\ out.ih = 800 /\ out.cw = 400 /\ out.ch = 300
    /\ out.res.set /\ REq(out.res.zoom, Rat(3, 8))
    /\ REq(out.res.pan.x, Rat(175, 2)) /\ REq(out.res.pan.y, Rat(0, 1))

(* C24: deleteSelected, with the id of a committed shape selected, removes
   that shape and no other, keeps the other shapes in their order and clears
   the selection; with nothing selected it changes neither the collection
   nor the selection. *)
C24_DeleteSelected ==
    [][ ev'.name = "KeyDelete" =>
          IF selectedId = NoId THEN UNCHANGED << shapes, selectedId >>
          ELSE (\E k \in 1..Len(shapes) : shapes[k].id = selectedId) =>
                 /\ selectedId' = NoId
                 /\ \E k \in 1..Len(shapes) :
                      /\ shapes[k].id = selectedId
                      /\ shapes' = SubSeq(shapes, 1, k - 1) \o SubSeq(shapes, k + 1, Len(shapes)) ]_vars

(* Delete took the middle shape of three: the first and the last are left, in
   that order, and nothing is selected. *)
C24_Witness ==
    /\ ev.name = "KeyDelete" /\ shapes = << R1, D3 >> /\ selectedId = NoId

(* C25: when the imported file is not a well-formed annotation bundle (its
   text does not parse, or the parsed object lacks the version or the shapes
   of a bundle), an alert is raised and the collection and the displayed
   image are left as they were. *)
C25_MalformedImportRejected ==
    [][ /\ ev'.name = "ImportJson"
        /\ ~ev'.arg.ok \/ ~ev'.arg.hasVersion \/ ~ev'.arg.hasShapes
        => /\ alerts' = alerts + 1
           /\ UNCHANGED << shapes, image >> ]_vars

(* C26: when the upload request of an image fails, or a detection request
   fails, an alert is raised and the committed collection stays as it was. *)
C26_RequestFailureSurfaced ==
    [][ ev'.name \in {"UploadCatch", "DetectRejected"} =>
           alerts' = alerts + 1 /\ shapes' = shapes ]_vars

(* C27: whatever drafts were created and finalized, points created, shapes
   dragged, deleted and nudged, and operations undone and redone, no two
   shapes of the committed collection have the same id (genId giving a fresh
   id at each call). *)
C27_UniqueIds ==
    \A i, j \in 1..Len(shapes) : i # j => shapes[i].id # shapes[j].id

(* A point was created behind the three shapes, and the creation undone and
   redone. *)
C27_Witness ==
    /\ gest.be.phase = "redone" /\ Len(shapes) = 4
    /\ shapes[4].type = "point" /\ shapes[4].id \notin {R1.id, D2.id, D3.id}

(* C28: uploadImage sends one POST of the file as form field 'file' to
   <image store URL>/images and, when the response is successful, resolves to
   the identifier the response body carries in its image_id field. *)
C28_UploadResolvesImageId ==
    out.fn = "uploadImage" =>
        /\ Len(out.res.requests) = 1
        /\ out.res.requests[1].url = IMAGE_STORE_SERVICE_URL \o "/images"
        /\ out.res.requests[1].method = "POST"
        /\ out.res.requests[1].form = [file |-> out.file]
        /\ (out.response.ok /\ "image_id" \in DOMAIN out.response.body) =>
              /\ ~out.res.threw
              /\ out.res.value = << out.response.body.image_id >>

(* C29: requestFeatureDetection sends one JSON POST to
   <detection URL>/detect_pattern whose body is exactly
   {image_id, pattern, params, return_overlay}, with return_overlay false when
   the caller does not give it, and, when the response is successful, resolves
   to the parsed response body. *)
C29_DetectionRequest ==
    out.fn = "requestFeatureDetection" =>
        /\ Len(out.res.requests) = 1
        /\ LET req == out.res.requests[1] IN
              /\ req.url = FEATURE_DETECTION_SERVICE_URL \o "/detect_pattern"
              /\ req.method = "POST"
              /\ req.headers.ContentType = "application/json"
              /\ DOMAIN req.body = {"image_id", "pattern", "params", "return_overlay"}
              /\ req.body.image_id = out.imageId
              /\ req.body.pattern = out.pattern
              /\ out.params # << >> => req.body.params = out.params[1]
              /\ out.returnOverlay # << >> => req.body.return_overlay = out.returnOverlay[1]
              /\ out.returnOverlay = << >> => req.body.return_overlay = FALSE
        /\ out.response.ok => ~out.res.threw /\ out.res.value = << out.response.body >>

(* A call that leaves returnOverlay out has been answered successfully. *)
C29_Witness ==
    /\ out.fn = "requestFeatureDetection"
    /\ out.returnOverlay = << >> /\ out.params # << >>
    /\ out.response.ok /\ out.res.value = << out.response.body >>

(* The coordinates of the two sides of rectangle r across the axis: its
   vertical sides for "left" and "right", its horizontal ones otherwise. *)
SidesAcross(r, edge) ==
    IF edge \in {"left", "right"} THEN {r.x, r.x + r.w} ELSE {r.y, r.y + r.h}

(* The sides of the box a after the side labelled edge has moved by (dx, dy)
   and the opposite one has stayed. *)
SidesMoved(a, edge, dx, dy) ==
    IF edge = "left" THEN {a.x + dx, a.x + a.w}
    ELSE IF edge = "right" THEN {a.x, a.x + a.w + dx}
    ELSE IF edge = "top" THEN {a.y + dy, a.y + a.h}
    ELSE {a.y, a.y + a.h + dy}

(* C30: for every committed rectangle, one whose stored width or height is
   negative after an edge was dragged across the opposite edge included, a
   drag started on the edge hitTest labels "left", "right", "top" or "bottom"
   moves that side of the normalized rectangle by the pointer's offset from
   the drag start and leaves the opposite side where it was. *)
C30_EdgeDrag ==
    gest.drag.phase = "dragging" /\ ev.name = "PointerMove" /\ dragRef.kind = "rect-edge" =>
        LET a == normalizeRect(dragRef.startShape)
            b == ShapeOf(shapes, dragRef.shapeId)
            dx == ev.arg.x - gest.drag.start.x
            dy == ev.arg.y - gest.drag.start.y
        IN  SidesAcross(b, dragRef.edge) = SidesMoved(a, dragRef.edge, dx, dy)

(* The nodes of path s whose anchor is within tol of p. *)
NodesByAnchor(s, p, tol) ==
    { i \in 1..Len(s.nodes) : dist2(p, s.nodes[i].p) <= tol * tol }

(* The nodes of path s one of whose control handles is within tol of p. *)
NodesByHandle(s, p, tol) ==
    { i \in 1..Len(s.nodes) :
        \/ HasHandle(s.nodes[i].h1) /\ dist2(p, s.nodes[i].h1[1]) <= tol * tol
        \/ HasHandle(s.nodes[i].h2) /\ dist2(p, s.nodes[i].h2[1]) <= tol * tol }

(* C31: for one Bezier shape hitTest tests anchors before control handles
   before the curve: a point, off the rotation handle, within tolerance of a
   node's anchor and of a control handle of another node is returned as
   bezier-anchor, for a node whose anchor is within tolerance. *)
C31_AnchorsBeforeHandles ==
    out.fn = "hitTest" /\ Len(shapes) = 1 /\ shapes[1].type = "bezier" =>
        LET s == shapes[1]
            p == LocalPoint(s, out.pt)
        IN  /\ dist2(p, RotHandleOf(s)) > out.tol * out.tol
            /\ \E i \in NodesByAnchor(s, p, out.tol), j \in NodesByHandle(s, p, out.tol) : i # j
            => /\ out.res.hit /\ out.res.kind = "bezier-anchor"
               /\ out.res.index + 1 \in NodesByAnchor(s, p, out.tol)

(* p is within tol of the segment from a to b. *)
NearSegment(p, a, b, tol) == FracLeq(pointToSegDist2(p, a, b), tol * tol)

(* C32: for a polyline with the closed flag set and at least 3 points, a
   point within tolerance of the closing segment from the last vertex to the
   first, and outside tolerance of every vertex, of every other segment and
   of the rotation handle, hits that polyline with kind move-shape. *)
C32_ClosingSegment ==
    /\ out.fn = "hitTest" /\ Len(shapes) = 1
    /\ shapes[1].type = "polyline" /\ shapes[1].closed /\ Len(shapes[1].points) >= 3
    => LET s == shapes[1]
           n == Len(s.points)
           p == LocalPoint(s, out.pt)
       IN  /\ NearSegment(p, s.points[n], s.points[1], out.tol)
           /\ \A i \in 1..n : dist2(p, s.points[i]) > out.tol * out.tol
           /\ \A i \in 1..(n - 1) : ~NearSegment(p, s.points[i], s.points[i + 1], out.tol)
           /\ dist2(p, RotHandleOf(s)) > out.tol * out.tol
           => out.res.hit /\ out.res.shape = s /\ out.res.kind = "move-shape"

(* C33: for every Bezier path with the closed flag and 2 or more nodes,
   toPathD ends the path with one cubic from the last node back to the first
   anchor, whose control points are the last node's h2 and the first node's
   h1, each replaced by its own anchor when missing, followed by a close
   command. *)
C33_ClosedPathEnd ==
    out.fn = "toPathD" /\ out.closed /\ Len(out.nodes) >= 2 =>
        LET n == Len(out.nodes)
            k == Len(out.res)
            first == out.nodes[1]
            last == out.nodes[n]
        IN  /\ k = n + 2
            /\ out.res[k] = [op |-> "Z"]
            /\ out.res[k - 1] =
                  [op |-> "C",
                   c1 |-> IF last.h2 = << >> THEN last.p ELSE last.h2[1],
                   c2 |-> IF first.h1 = << >> THEN first.p ELSE first.h1[1],
                   p |-> first.p]

(* h is the point midway between a and b. *)
IsMidpoint(h, a, b) == h # << >> /\ 2 * h[1].x = a.x + b.x /\ 2 * h[1].y = a.y + b.y

(* C34: in every Bezier draft with 2 or more nodes, after any number of
   clicks, for each adjacent pair of nodes i and i+1 the outgoing handle h2 of
   node i and the incoming handle h1 of node i+1 both equal the midpoint of
   the two anchors, the first node has no h1 and the last node has no h2. *)
C34_DraftHandles ==
    draftBezier # NoShape /\ Len(draftBezier.nodes) >= 2 =>
        LET nodes == draftBezier.nodes
        IN  /\ \A i \in 1..(Len(nodes) - 1) :
                  /\ IsMidpoint(nodes[i].h2, nodes[i].p, nodes[i + 1].p)
                  /\ IsMidpoint(nodes[i + 1].h1, nodes[i].p, nodes[i + 1].p)
            /\ nodes[1].h1 = << >>
            /\ nodes[Len(nodes)].h2 = << >>

(* A draft of three nodes at three different anchors, after the third click. *)
C34_Witness ==
    /\ draftBezier # NoShape /\ Len(draftBezier.nodes) = 3
    /\ ev.name = "PointerDown"
    /\ draftBezier.nodes[1].p # draftBezier.nodes[2].p
    /\ draftBezier.nodes[2].p # draftBezier.nodes[3].p
    /\ draftBezier.nodes[2].h1 # draftBezier.nodes[2].h2

(* C35: after every gesture that reached endOp and changed the collection,
   the top of the undo stack is the collection as it was when that gesture
   began, so that one undo reverts exactly that gesture; also when undo, redo
   or Escape came while the gesture (a drag or a draft) was in progress. *)
C35_GestureSnapshotOnTop ==
    gest.op.phase = "closed" /\ gest.op.A # gest.op.B =>
        /\ Len(undoStack) > 0
        /\ undoStack[Len(undoStack)] = gest.op.A

(* C36: whenever imageId is not null it is the identifier returned by the
   upload of the file whose decoded image is on display, under every
   interleaving of decode completions, upload completions and data-URL
   loads. *)
C36_ImageIdOfDisplayedImage ==
    imageId # NoId =>
        /\ image # NoImage
        /\ image.kind = "file"
        /\ imageId = UploadedId(image.token)

(* The ids of the live drafts. *)
DraftIds ==
    { d.id : d \in { d \in {draftRect, draftPoly, draftBezier} : d # NoShape } }

(* C37: selectedId is always null, the id of a shape of the committed
   collection, or the id of a live draft, after any sequence of create,
   finalize, discard, cancelDrafts, drag, delete, undo and redo. *)
C37_SelectionExists ==
    \/ selectedId = NoId
    \/ \E i \in 1..Len(shapes) : shapes[i].id = selectedId
    \/ selectedId \in DraftIds

(* A step in which onPointerMove ran updateDrag. *)
DragUpdateStep == ev'.name = "PointerMove" /\ "updateDrag" \in ev'.calls

(* C38: updateDrag changes at most the shape whose id is recorded in the drag
   state: the collection keeps its length and order and every other shape,
   and a shape that was removed from the collection during the drag (by
   delete or undo) is not put back. *)
C38_DragFrame ==
    [][DragUpdateStep =>
          /\ Len(shapes') = Len(shapes)
          /\ \A i \in 1..Len(shapes) :
                \/ shapes'[i] = shapes[i]
                \/ shapes[i].id = dragRef.shapeId /\ shapes'[i].id = dragRef.shapeId]_vars

(* A drag update has run after the dragged shape was deleted: the collection
   holds the other shapes and none with the id of the drag state. *)
C38_Witness ==
    /\ ev.name = "PointerMove" /\ "updateDrag" \in ev.calls
    /\ dragRef # NoDrag /\ ev.arg # dragRef.startMouseImg
    /\ Len(shapes) >= 1
    /\ \A i \in 1..Len(shapes) : shapes[i].id # dragRef.shapeId

(* C39: after a new image has loaded and reset the shape collection to empty,
   undo and redo never bring back shapes that were drawn on the image
   before. *)
C39_NoShapesOfOldImage ==
    gest.img.phase = "loaded" /\ ev.name \in {"Undo", "Redo"} =>
        IdsOf(shapes) \cap gest.img.old = {}

(* C40: the zoom factor stays within the limits minZoom and maxZoom, 0.1 and
   20 by default, after any sequence of wheel events, zoomIn, zoomOut and
   zoomToFit. *)
C40_ZoomWithinLimits ==
    out.fn = "usePanZoom" =>
        /\ out.zoom.d > 0
        /\ 10 * out.zoom.n >= out.zoom.d
        /\ out.zoom.n <= 20 * out.zoom.d

(* zoomToFit has put the zoom at the upper limit and a zoomIn after it has
   left it there. *)
C40_Witness ==
    /\ out.fn = "usePanZoom" /\ out.op = "zoomIn" /\ out.n >= 2
    /\ out.zoom = Rat(20, 1)

====
